---- MODULE Spec2Model ----
(***************************************************************************)
(* A model of the decision core of TradeCraftMX: the price/trigger         *)
(* adjuster, the multi-level and dynamic-averaging entry planners, the     *)
(* SessionCache with its quote cache (CMPManager), and the persisted plan  *)
(* slot consumed by the placement commands.                                *)
(*                                                                         *)
(* Money.  Every price is an integer number of paise (1/100 rupee); an     *)
(* amount (quantity * price) is in paise too.  The intermediate values the *)
(* adjuster rounds to four decimals are integers in units of 1/10000 rupee *)
(* ("e4").  Python's round(x, n) is modelled as round-half-to-even on the  *)
(* exact decimal value.                                                     *)
(***************************************************************************)
EXTENDS Integers, Sequences, FiniteSets, TLC

VARIABLES
    \* ---- price adjuster under test
    adjIn,            \* [order_price, ltp]: the arguments, in paise
    adjOut,           \* [fn, order_price, trigger]: the last call and its result
    \* ---- planners
    broker_kind,      \* "zerodha" | "upstox": the broker behind self.broker
    entry_levels,     \* rows of data/entry_levels.csv
    holdings,         \* the holdings snapshot handed to the planner
    broker_gtts,      \* the conditional orders standing at the broker
    broker_trades,    \* the fills the broker's API reports
    quotes,           \* CMPManager.cache: symbol -> last_price (NaN: no quote)
    planner,          \* "none" | "ml" | "da" | "sl": the planner instance in use
    phase,            \* "new" | "identified" | "planned" | "raised"
    candidates,       \* the list identify_candidates returned
    skipped_orders,   \* MultiLevelEntryStrategy.skipped_orders / DynamicAveragingPlanner.skipped_symbols
    plan,             \* the list generate_plan / generate_buy_plan returned
    \* ---- session cache, plan slot, placement
    now,              \* time.time()
    session,          \* the SessionCache object (with its CMPManager's cache)
    plan_file,        \* data/gtt_plan_cache.json
    placed,           \* symbols of the broker.place_gtt calls accepted so far
    last_op,          \* the last session operation and its outcome
    \* ---- plan slot history, conditional-order manager, quote download
    slot_log,         \* the write_gtt_plan / delete_gtt_plan calls made so far, and the last read
    mgr_in,           \* what a GTTManager call works on: cached orders, quotes, arguments
    mgr_out,          \* what the last GTTManager call returned and the calls it made
    fetch             \* CMPManager._fetch_bulk_quote_upstox in progress

adjVars  == <<adjIn, adjOut>>
planVars == <<broker_kind, entry_levels, holdings, broker_gtts, broker_trades,
              quotes, planner, phase, candidates, skipped_orders, plan>>
sessVars == <<now, session, plan_file, placed, last_op>>
mgrVars  == <<slot_log, mgr_in, mgr_out, fetch>>
vars     == <<adjVars, planVars, sessVars, mgrVars>>

----------------------------------------------------------------------------
(* Numbers *)

\* math.isnan(x) / x is None: the one "no number" value of a CSV cell or a quote
NaN == -1

Abs(x) == IF x < 0 THEN -x ELSE x
Min(a, b) == IF a <= b THEN a ELSE b

\* round(n / d) to the nearest integer, ties to the even one (Python's round)
RoundHalfEven(n, d) ==
    LET q == n \div d
        r == n % d
    IN  IF 2 * r > d \/ (2 * r = d /\ q % 2 = 1) THEN q + 1 ELSE q

\* int(n / d) for n >= 0, d > 0
Floor(n, d) == n \div d

----------------------------------------------------------------------------
(* BaseEntryStrategy.adjust_trigger_and_order_price *)

LTP_TRIGGER_DIFF_E4   == 26    \* 0.0026
ORDER_TRIGGER_DIFF_E4 == 10    \* 0.001
MIN_REQUIRED_DIFF_E4  == 25    \* 0.0025
TICK_THRESHOLD        == 50000 \* ltp < 500
TICK_SMALL            == 5     \* 0.05
TICK_LARGE            == 10    \* 0.1

\* min_diff = round(ltp * LTP_TRIGGER_DIFF, 4), in e4
MinDiff(ltp) == RoundHalfEven(ltp * LTP_TRIGGER_DIFF_E4, 100)

\* exact_diff = round(order_price * ORDER_TRIGGER_DIFF, 4), in e4
ExactDiff(order_price) == RoundHalfEven(order_price * ORDER_TRIGGER_DIFF_E4, 100)

\* round(paise +/- e4, 2): back to paise
Round2(e4) == RoundHalfEven(e4, 100)

\* lines 33-48: the branch on order_price < ltp and the clamp
Clamp(order_price, ltp) ==
    LET min_diff   == MinDiff(ltp)
        exact_diff == ExactDiff(order_price)
    IN  IF order_price < ltp
        THEN LET min_trigger == Round2(ltp * 100 - min_diff)
                 trigger     == Round2(order_price * 100 + exact_diff)
             IN  IF trigger < min_trigger
                 THEN [order_price |-> order_price, trigger |-> trigger]
                 ELSE [order_price |-> Round2(min_trigger * 100 - exact_diff),
                       trigger |-> min_trigger]
        ELSE LET max_trigger == Round2(ltp * 100 + min_diff)
                 trigger     == Round2(order_price * 100 - exact_diff)
             IN  IF trigger > max_trigger
                 THEN [order_price |-> order_price, trigger |-> trigger]
                 ELSE [order_price |-> Round2(max_trigger * 100 + exact_diff),
                       trigger |-> max_trigger]

\* tick_size = 0.05 if ltp < 500 else 0.1
TickSize(ltp) == IF ltp < TICK_THRESHOLD THEN TICK_SMALL ELSE TICK_LARGE

\* round(round(p / tick_size) * tick_size, 2)
RoundToTick(p, tick) == RoundHalfEven(p, tick) * tick

\* actual_diff = abs(trigger - ltp) / ltp;  actual_diff < MIN_REQUIRED_DIFF
TooClose(trigger, ltp) == Abs(trigger - ltp) * 10000 < MIN_REQUIRED_DIFF_E4 * ltp

\* lines 57-60: the trigger the final guard enforces
GuardTrigger(trigger, ltp) ==
    IF trigger < ltp
    THEN RoundHalfEven(ltp * 10000 - ltp * MIN_REQUIRED_DIFF_E4, 10000)
    ELSE RoundHalfEven(ltp * 10000 + ltp * MIN_REQUIRED_DIFF_E4, 10000)

\* lines 54-61: the final minimum-difference guard (exact_diff is the one
\* computed from the order price passed in)
Guard(p, order_price_in, ltp) ==
    IF TooClose(p.trigger, ltp)
    THEN LET trigger == GuardTrigger(p.trigger, ltp)
         IN  [order_price |-> Round2(trigger * 100 - ExactDiff(order_price_in)),
              trigger |-> trigger]
    ELSE p

adjust_trigger_and_order_price(order_price, ltp) ==
    LET c    == Clamp(order_price, ltp)
        tick == TickSize(ltp)
        t    == [order_price |-> RoundToTick(c.order_price, tick),
                 trigger |-> RoundToTick(c.trigger, tick)]
    IN  Guard(t, order_price, ltp)

\* BuyOrderPlanner.adjust_trigger_and_order_price: the same, with the tick
\* fixed to 0.05
buy_adjust_trigger_and_order_price(order_price, ltp) ==
    LET c == Clamp(order_price, ltp)
        t == [order_price |-> RoundToTick(c.order_price, TICK_SMALL),
              trigger |-> RoundToTick(c.trigger, TICK_SMALL)]
    IN  Guard(t, order_price, ltp)

----------------------------------------------------------------------------
(* Input domains *)

MaxLtpIdx == 3     \* the adjuster is tried on 2 * (MaxLtpIdx + 1) reference prices
MaxOff    == 6     \* and on order prices within MaxOff * 0.1% of each
MaxRows   == 2     \* entry-level rows in a planning pass
MaxLegs   == 2     \* "DA Legs" of a dynamic-averaging row

\* reference prices on both sides of the tick threshold (103.00 .., 500.00 ..)
LtpValues == {10300 + 100 * k : k \in 0..MaxLtpIdx}
             \cup {TICK_THRESHOLD + 100 * k : k \in 0..MaxLtpIdx}

\* order prices below, at and above the reference price
OrderPrices(ltp) == {ltp + j * (ltp \div 1000) : j \in (0 - MaxOff)..MaxOff}

Symbols == {"FOO", "BAR"}

\* one configuration (the columns other than symbol) of an entry-level row:
\* Allocated and entry1..3 in paise, NaN for an empty cell
RowConfig(alloc, e1, e2, e3, da, legs) ==
    [Allocated |-> alloc, entry1 |-> e1, entry2 |-> e2, entry3 |-> e3,
     da_enabled |-> da, da_legs |-> legs, da_buyback |-> 5]

RowConfigs ==
    {RowConfig(3000000, 10000, 9000, 8000, FALSE, 1),
     RowConfig(1000000, 10000, NaN, NaN, FALSE, 1),
     RowConfig(3000000, NaN, 9000, 8000, FALSE, 1),
     RowConfig(3000000, NaN, NaN, NaN, FALSE, 1),
     RowConfig(0, 10000, 9000, 8000, FALSE, 1),
     RowConfig(NaN, 10000, 9000, 8000, FALSE, 1)}
    \cup {RowConfig(3000000, 10000, 9000, 8000, TRUE, l) : l \in 1..MaxLegs}

Row(sym, c) ==
    [symbol |-> sym, exchange |-> "NSE", Allocated |-> c.Allocated,
     entry1 |-> c.entry1, entry2 |-> c.entry2, entry3 |-> c.entry3,
     da_enabled |-> c.da_enabled, da_legs |-> c.da_legs,
     da_buyback |-> c.da_buyback]

\* the entry-level lists tried: 1..MaxRows rows over Symbols (the same symbol
\* may be listed twice), all rows of a list with the same configuration, and
\* the lists that open with a row without symbol
RowLists ==
    UNION {{[i \in 1..n |-> Row(syms[i], c)] :
               syms \in [1..n -> Symbols], c \in RowConfigs} : n \in 1..MaxRows}
    \cup {<<Row("", c), Row("FOO", c)>> : c \in RowConfigs}

\* holdings snapshots tried: none, or one holding of FOO bought at 99.00
\* (quantity + t1_quantity is 50, 150, 211, 300 or 303 shares: inside the
\* first and the second level, at the start of the third, and with 300.00 and
\* 3.00 of the 30000.00 allocated left)
Holding(sym, q, t1) ==
    [tradingsymbol |-> sym, exchange |-> "NSE", quantity |-> q,
     t1_quantity |-> t1, average_price |-> 9900]

HoldingLists ==
    {<<>>, <<Holding("FOO-BE", 40, 10)>>, <<Holding("FOO", 150, 0)>>,
     <<Holding("FOO", 211, 0)>>, <<Holding("FOO", 300, 0)>>,
     <<Holding("FOO", 303, 0)>>}

\* conditional orders standing at the broker: none, or one order on FOO
Gtt(sym, st, tt) ==
    [id |-> 1, tradingsymbol |-> sym, exchange |-> "NSE", status |-> st,
     transaction_type |-> tt, trigger |-> 9000, price |-> 8990, quantity |-> 10]

GttLists ==
    {<<>>} \cup {<<Gtt("FOO", st, tt)>> :
                    st \in {"active", "cancelled"}, tt \in {"BUY", "SELL"}}

\* fills the broker's trade API holds: none, or one fill of FOO
Trade(sym, today, tt) ==
    [tradingsymbol |-> sym, instrument_token |-> "NSE_EQ", fill_today |-> today,
     transaction_type |-> tt]

TradeLists ==
    {<<>>, <<Trade("FOO", TRUE, "BUY")>>, <<Trade("FOO", FALSE, "BUY")>>,
     <<Trade("FOO", TRUE, "SELL")>>}

\* quote caches tried: BAR always quoted, FOO quoted or not
PlanLtps == {9400, 9600, 10000}
QuoteMaps ==
    {[s \in Symbols |-> IF s = "FOO" THEN f ELSE 9600] : f \in PlanLtps \cup {NaN}}

----------------------------------------------------------------------------
(* Strings and lists *)

\* str.upper() on the symbols in use
Upper(s) ==
    CASE s = "foo" -> "FOO"
      [] s = "bar" -> "BAR"
      [] OTHER -> s

\* tradingsymbol.replace("#", "").replace("-BE", "")
StripSeries(s) ==
    CASE s = "FOO-BE" -> "FOO"
      [] s = "#FOO" -> "FOO"
      [] s = "BAR-BE" -> "BAR"
      [] s = "#BAR" -> "BAR"
      [] OTHER -> s

Range(seq) == {seq[i] : i \in 1..Len(seq)}

\* [f(x) for x in seq]
MapSeq(f(_), seq) == [i \in 1..Len(seq) |-> f(seq[i])]

\* [x for x in seq if p(x)]
FilterSeq(p(_), seq) == SelectSeq(seq, p)

\* the concatenation of the lists f(x), x in seq
RECURSIVE FlatMap(_, _)
FlatMap(f(_), seq) ==
    IF seq = <<>> THEN <<>> ELSE f(Head(seq)) \o FlatMap(f, Tail(seq))

----------------------------------------------------------------------------
(* The broker, as the planners see it *)

\* ZerodhaBroker.get_gtt_orders / UpstoxBroker.get_gtt_orders: the orders,
\* or [] when the request fails (the exception is logged and swallowed)
get_gtt_orders(ok) == IF ok THEN broker_gtts ELSE <<>>

\* UpstoxBroker.trades: "-EQ" is appended to the symbol of an NSE_EQ fill
UpstoxFormatTrade(t) ==
    [t EXCEPT !.tradingsymbol =
        IF t.instrument_token = "NSE_EQ" THEN t.tradingsymbol \o "-EQ"
        ELSE t.tradingsymbol]

\* ZerodhaBroker.trades / UpstoxBroker.trades: the day's fills, or [] when the
\* request fails
trades(ok) ==
    IF ~ok THEN <<>>
    ELSE IF broker_kind = "upstox" THEN MapSeq(UpstoxFormatTrade, broker_trades)
    ELSE broker_trades

\* CMPManager.get_cmp(exchange, symbol) on a valid cache
get_cmp(exchange, symbol) == IF symbol \in DOMAIN quotes THEN quotes[symbol] ELSE NaN

----------------------------------------------------------------------------
(* MultiLevelEntryStrategy *)

LTP_TRIGGER_VARIANCE_PERCENT == 15     \* 0.15
ORDER_PRICE_BUFFER_PERMILLE  == 25     \* 0.025

_is_valid_price(price) == price # NaN

_create_skipped_order(symbol, reason, exchange, ltp, entry) ==
    [symbol |-> symbol, exchange |-> exchange, price |-> NaN, trigger |-> NaN,
     qty |-> 0, ltp |-> ltp, entry |-> entry, skip_reason |-> reason]

\* lines 37-44: the symbols with an active or completed BUY conditional order
existing_gtt_symbols(gtt_orders) ==
    {Upper(g.tradingsymbol) :
        g \in {x \in Range(gtt_orders) :
                 x.status \in {"active", "COMPLETED"} /\ x.transaction_type = "BUY"}}

\* lines 46-55: the symbols with a fill dated today (of either side)
completed_trade_symbols(trade_list) ==
    {Upper(t.tradingsymbol) : t \in {x \in Range(trade_list) : x.fill_today}}

NumEntries(scrip) ==
    (IF _is_valid_price(scrip.entry1) THEN 1 ELSE 0)
    + (IF _is_valid_price(scrip.entry2) THEN 1 ELSE 0)
    + (IF _is_valid_price(scrip.entry3) THEN 1 ELSE 0)

\* lines 57-120, one turn of the loop: the reason the row is skipped for, or ""
IdentifySkipReason(scrip, existing, completed) ==
    LET ltp == get_cmp(scrip.exchange, scrip.symbol)
    IN  IF Upper(scrip.symbol) \in existing THEN "GTT already exists for symbol"
        ELSE IF Upper(scrip.symbol) \in completed THEN "Trade already completed today"
        ELSE IF scrip.Allocated = NaN \/ scrip.Allocated = 0
             THEN "Invalid or zero allocation"
        ELSE IF NumEntries(scrip) = 0 THEN "No valid entry levels"
        ELSE IF ltp = NaN \/ ltp = 0 THEN "Invalid CMP"
        ELSE ""

\* lines 114-120: the candidate made of a row that passed every check
Candidate(scrip) ==
    [symbol |-> scrip.symbol, exchange |-> scrip.exchange,
     Allocated |-> scrip.Allocated, entry1 |-> scrip.entry1,
     entry2 |-> scrip.entry2, entry3 |-> scrip.entry3,
     ltp |-> get_cmp(scrip.exchange, scrip.symbol),
     num_entries |-> NumEntries(scrip),
     is_entry1_valid |-> _is_valid_price(scrip.entry1),
     is_entry2_valid |-> _is_valid_price(scrip.entry2),
     is_entry3_valid |-> _is_valid_price(scrip.entry3)]

\* the rows the loop looks at: those with a symbol
HasSymbol(scrip) == scrip.symbol # ""

\* identify_candidates: [candidates, skipped], both in row order
identify_candidates(rows, gtt_orders, trade_list) ==
    LET existing  == existing_gtt_symbols(gtt_orders)
        completed == completed_trade_symbols(trade_list)
        Passes(scrip)  == HasSymbol(scrip)
                          /\ IdentifySkipReason(scrip, existing, completed) = ""
        Skipped(scrip) == HasSymbol(scrip)
                          /\ IdentifySkipReason(scrip, existing, completed) # ""
        Skip(scrip)    == _create_skipped_order(scrip.symbol,
                              IdentifySkipReason(scrip, existing, completed),
                              scrip.exchange, NaN, "")
    IN  [candidates |-> MapSeq(Candidate, FilterSeq(Passes, rows)),
         skipped    |-> MapSeq(Skip, FilterSeq(Skipped, rows))]

\* holdings_map.get(symbol): the last holding whose normalised symbol matches
HoldingOf(hs, symbol) ==
    LET idx == {i \in 1..Len(hs) : StripSeries(hs[i].tradingsymbol) = symbol}
    IN  IF idx = {} THEN <<>>
        ELSE <<hs[CHOOSE i \in idx : \A j \in idx : j <= i]>>

\* _get_holding_details followed by invested_amount = total_qty * average_price
InvestedAmount(hs, symbol) ==
    LET h == HoldingOf(hs, symbol)
    IN  IF h = <<>> THEN 0
        ELSE (h[1].quantity + h[1].t1_quantity) * h[1].average_price

\* lines 138-142: entry_level_definitions
EntryLevelDefinitions(scrip) ==
    <<[level |-> "E1", price |-> scrip.entry1, is_valid |-> scrip.is_entry1_valid],
      [level |-> "E2", price |-> scrip.entry2, is_valid |-> scrip.is_entry2_valid],
      [level |-> "E3", price |-> scrip.entry3, is_valid |-> scrip.is_entry3_valid]>>

\* lines 148-150 and 163-165: current_level_max_investment of level i
\* (entry_allocated = allocated / num_entries; the allocations tried divide)
LevelMaxInvestment(scrip, i) ==
    IF i = scrip.num_entries THEN scrip.Allocated
    ELSE i * (scrip.Allocated \div scrip.num_entries)

\* the level search taking the first level that can be bought now, not the
\* cheapest
_determine_entry_level_first_ready(scrip, invested_amount, ltp) ==
    LET defs == EntryLevelDefinitions(scrip)
        Usable(i) == defs[i].is_valid /\ _is_valid_price(defs[i].price)
        Open(i)   == invested_amount < LevelMaxInvestment(scrip, i)
        next      == {i \in 1..3 : Usable(i) /\ Open(i)}
        ready     == {i \in next : ltp <= defs[i].price}
        from      == IF ready # {} THEN ready ELSE next
        first     == CHOOSE i \in from : \A j \in from : i <= j
    IN  IF from # {}
        THEN [level |-> defs[first].level, price |-> defs[first].price,
              max_investment |-> LevelMaxInvestment(scrip, first)]
        ELSE [level |-> "", price |-> NaN, max_investment |-> 0]

_determine_entry_level(scrip, invested_amount, ltp) ==
    LET defs == EntryLevelDefinitions(scrip)
        Usable(i) == defs[i].is_valid /\ _is_valid_price(defs[i].price)
        Open(i)   == invested_amount < LevelMaxInvestment(scrip, i)
        potential == {i \in 1..3 : Usable(i) /\ ltp <= defs[i].price /\ Open(i)}
        next      == {i \in 1..3 : Usable(i) /\ Open(i)}
        \* min(..., key=price): the first of the cheapest
        best      == CHOOSE i \in potential :
                        \A j \in potential :
                            defs[i].price < defs[j].price
                            \/ (defs[i].price = defs[j].price /\ i <= j)
        first     == CHOOSE i \in next : \A j \in next : i <= j
    IN  IF potential # {}
        THEN [level |-> defs[best].level, price |-> defs[best].price,
              max_investment |-> LevelMaxInvestment(scrip, best)]
        ELSE IF next # {}
        THEN [level |-> defs[first].level, price |-> defs[first].price,
              max_investment |-> LevelMaxInvestment(scrip, first)]
        ELSE [level |-> "", price |-> NaN, max_investment |-> 0]

_calculate_quantity(amount_to_invest, entry_price) ==
    IF entry_price = NaN \/ entry_price = 0 THEN 0
    ELSE Floor(amount_to_invest, entry_price)

\* line 246: the order price handed to the adjuster
BufferedOrderPrice(entry_price, ltp) ==
    IF entry_price > ltp
    THEN Min(entry_price,
             RoundHalfEven(ltp * (1000 + ORDER_PRICE_BUFFER_PERMILLE), 1000))
    ELSE entry_price

\* line 249-250: variance = abs(ltp - trigger) / trigger > 0.15
VarianceExceeded(ltp, trigger) ==
    trigger > 0 /\ Abs(ltp - trigger) * 100 > LTP_TRIGGER_VARIANCE_PERCENT * trigger

\* generate_plan, one turn of the loop: the planned order or the skip record
PlanOne(scrip, hs) ==
    LET symbol   == scrip.symbol
        exchange == scrip.exchange
        ltp      == scrip.ltp
        allocated == scrip.Allocated
        invested_amount == InvestedAmount(hs, symbol)
        lvl      == _determine_entry_level(scrip, invested_amount, ltp)
        amount_to_invest == Min(lvl.max_investment - invested_amount,
                                allocated - invested_amount)
        qty      == _calculate_quantity(amount_to_invest, lvl.price)
        adj      == adjust_trigger_and_order_price(
                        BufferedOrderPrice(lvl.price, ltp), ltp)
    IN  IF invested_amount >= allocated
        THEN _create_skipped_order(symbol,
                 "Holding has reached or exceeded allocated amount", exchange, ltp, "")
        ELSE IF lvl.level = ""
        THEN _create_skipped_order(symbol,
                 "Holding does not qualify for any entry level", exchange, ltp, "")
        ELSE IF ~_is_valid_price(lvl.price)
        THEN _create_skipped_order(symbol,
                 "Invalid entry price for quantity calculation", exchange, ltp, lvl.level)
        ELSE IF amount_to_invest <= 0
        THEN _create_skipped_order(symbol,
                 "No further investment needed for this level", exchange, ltp, lvl.level)
        ELSE IF qty = 0
        THEN _create_skipped_order(symbol, "Computed quantity is 0", exchange, ltp,
                                   lvl.level)
        ELSE IF VarianceExceeded(ltp, adj.trigger)
        THEN _create_skipped_order(symbol, "LTP-trigger variance exceeds threshold",
                                   exchange, ltp, lvl.level)
        ELSE [symbol |-> symbol, exchange |-> exchange, price |-> adj.order_price,
              trigger |-> adj.trigger, qty |-> qty, ltp |-> ltp,
              entry |-> lvl.level]

IsSkip(rec) == "skip_reason" \in DOMAIN rec

\* generate_plan with the skip records of its loop dropped
generate_plan_dropping_skips(cands, hs) ==
    LET One(scrip)    == PlanOne(scrip, hs)
        Planned(rec)  == ~IsSkip(rec)
    IN  [plan    |-> FilterSeq(Planned, MapSeq(One, cands)),
         skipped |-> <<>>]

\* generate_plan: [plan, skipped], both in candidate order
generate_plan(cands, hs) ==
    LET One(scrip)    == PlanOne(scrip, hs)
        Planned(rec)  == ~IsSkip(rec)
        outcomes      == MapSeq(One, cands)
    IN  [plan    |-> FilterSeq(Planned, outcomes),
         skipped |-> FilterSeq(IsSkip, outcomes)]

----------------------------------------------------------------------------
(* DynamicAveragingPlanner *)

TRIGGER_OFFSET_FACTOR_E1 == 3     \* trigger_offset_factor = 0.3

\* entry_levels_map.get(symbol): the last row listed for the symbol
EntryOf(rows, symbol) ==
    LET idx == {i \in 1..Len(rows) : Upper(rows[i].symbol) = symbol}
    IN  IF idx = {} THEN <<>>
        ELSE <<rows[CHOOSE i \in idx : \A j \in idx : j <= i]>>

\* lines 59-66: the valid entry prices, in column order
EntryPrices(entry) ==
    FilterSeq(_is_valid_price, <<entry.entry1, entry.entry2, entry.entry3>>)

\* lines 72-74: cumulative_qtys, from entry_qtys = round(entry_alloc / p)
RECURSIVE SumSeq(_)
SumSeq(seq) == IF seq = <<>> THEN 0 ELSE Head(seq) + SumSeq(Tail(seq))

CumulativeQtys(allocated, entry_prices) ==
    LET n == Len(entry_prices)
        entry_qtys == [i \in 1..n |-> RoundHalfEven(allocated, n * entry_prices[i])]
    IN  [i \in 1..n |-> SumSeq(SubSeq(entry_qtys, 1, i))]

\* lines 84-91: the first level whose cumulative quantity exceeds held_qty
\* (0: none)
LevelOf(held_qty, cumulative_qtys) ==
    LET hit == {i \in 1..Len(cumulative_qtys) :
                   (IF i = 1 THEN 0 ELSE cumulative_qtys[i - 1]) <= held_qty
                   /\ held_qty < cumulative_qtys[i]}
    IN  IF hit = {} THEN 0 ELSE CHOOSE i \in hit : \A j \in hit : i <= j

LevelTag(i) == <<"E1", "E2", "E3">>[i]
LegTag(i) == <<"DA1", "DA2", "DA3", "DA4">>[i]

DASymbol(holding) == Upper(StripSeries(holding.tradingsymbol))

\* identify_candidates, one turn of the loop: the skip record or the candidate
\* (gtt_symbols: every BUY order of the cached list, whatever its status)
DAIdentifyOne(holding, rows, gtt_cache) ==
    LET symbol == DASymbol(holding)
        e      == EntryOf(rows, symbol)
        entry  == e[1]
        ltp    == get_cmp(entry.exchange, symbol)
        allocated == entry.Allocated
        entry_prices == EntryPrices(entry)
        cumulative_qtys == CumulativeQtys(allocated, entry_prices)
        held_qty == holding.quantity + holding.t1_quantity
        avg_price == holding.average_price
        invested_amount == avg_price * held_qty
        level  == LevelOf(held_qty, cumulative_qtys)
        gtt_symbols == {Upper(g.tradingsymbol) :
                           g \in {x \in Range(gtt_cache) : x.transaction_type = "BUY"}}
        Skip(reason) == [symbol |-> symbol, skip_reason |-> reason]
    IN  IF e = <<>> THEN Skip("Not in entry levels")
        ELSE IF ltp = NaN \/ ltp <= 0 THEN Skip("Invalid LTP")
        ELSE IF ~entry.da_enabled \/ allocated < ltp
        THEN Skip("DA not enabled or allocated < LTP")
        ELSE IF entry_prices = <<>> THEN Skip("No valid entry levels")
        ELSE IF invested_amount > allocated THEN Skip("Invested amount > allocated")
        ELSE IF level = 0 THEN Skip("Holding quantity not in any entry level range")
        \* ltp > avg_price * (1 - da_buyback_at / 100)
        ELSE IF ltp * 100 > avg_price * (100 - entry.da_buyback)
        THEN Skip("LTP not below threshold")
        ELSE IF symbol \in gtt_symbols THEN Skip("GTT already exists")
        ELSE [symbol |-> symbol, exchange |-> entry.exchange,
              allocated |-> allocated, held_qty |-> held_qty,
              avg_price |-> avg_price, ltp |-> ltp, da_legs |-> entry.da_legs,
              da_buyback_at |-> entry.da_buyback,
              target_qty |-> cumulative_qtys[level], entry_level |-> LevelTag(level)]

\* DynamicAveragingPlanner.identify_candidates: [candidates, skipped]
da_identify_candidates(hs, rows, gtt_cache) ==
    LET One(h) == DAIdentifyOne(h, rows, gtt_cache)
        Cand(rec) == ~IsSkip(rec)
        outcomes == MapSeq(One, hs)
    IN  [candidates |-> FilterSeq(Cand, outcomes),
         skipped    |-> FilterSeq(IsSkip, outcomes)]

\* lines 135-144: the quantity left for the level, capped by the allocation
RemainingQty(c) ==
    LET invested_amount == c.held_qty * c.avg_price
        remaining_allocation == c.allocated - invested_amount
        remaining_qty == c.target_qty - c.held_qty
    IN  IF remaining_qty * c.ltp > remaining_allocation
        THEN Floor(remaining_allocation, c.ltp)
        ELSE remaining_qty

\* line 158: leg_qty = int(remaining_qty / da_legs)
LegQty(c) == Floor(RemainingQty(c), c.da_legs)

\* lines 167-168: trigger_price = round(ltp * (1 + da_trigger_offset / 100), 2),
\* da_trigger_offset = da_buyback_at * 0.3, then the BuyOrderPlanner adjuster
DAPrices(c) ==
    buy_adjust_trigger_and_order_price(
        RoundHalfEven(c.ltp * (1000 + c.da_buyback_at * TRIGGER_OFFSET_FACTOR_E1), 1000),
        c.ltp)

\* the legs with the loop running one turn too many
DALegs_one_more(c) ==
    [i \in 1..(c.da_legs + 1) |->
        [symbol |-> c.symbol, exchange |-> c.exchange,
         price |-> DAPrices(c).order_price, trigger |-> DAPrices(c).trigger,
         qty |-> LegQty(c), ltp |-> c.ltp, strategy |-> "Dynamic Averaging",
         leg |-> LegTag(i), entry |-> c.entry_level]]

\* lines 170-181: the legs appended for one candidate
DALegs(c) ==
    [i \in 1..c.da_legs |->
        [symbol |-> c.symbol, exchange |-> c.exchange,
         price |-> DAPrices(c).order_price, trigger |-> DAPrices(c).trigger,
         qty |-> LegQty(c), ltp |-> c.ltp, strategy |-> "Dynamic Averaging",
         leg |-> LegTag(i), entry |-> c.entry_level]]

\* generate_buy_plan, one turn of the loop
DAPlanOne(c) ==
    IF RemainingQty(c) <= 0 THEN <<>>
    ELSE IF LegQty(c) <= 0 THEN <<>>
    ELSE DALegs(c)

generate_buy_plan(cands) == FlatMap(DAPlanOne, cands)

----------------------------------------------------------------------------
(* BuyOrderPlanner.generate_plan: the single-level planner *)

\* lines 96-100: quantity + t1_quantity of the first holding of the symbol
FirstHoldingQty(hs, symbol) ==
    LET idx == {i \in 1..Len(hs) : StripSeries(hs[i].tradingsymbol) = symbol}
        h   == hs[CHOOSE i \in idx : \A j \in idx : i <= j]
    IN  IF idx = {} THEN 0 ELSE h.quantity + h.t1_quantity

\* generate_plan(scrip): [records (the list returned), raised]. A cell read
\* from the CSV is never None, so the "is not None" tests of lines 119-125
\* pass, and an empty (NaN) entry price selected makes the adjuster's
\* round(nan / 0.05) raise ValueError
buy_generate_plan(scrip, gtt_cache, hs) ==
    LET symbol    == scrip.symbol
        exchange  == scrip.exchange
        ltp       == get_cmp(exchange, symbol)
        allocated == scrip.Allocated
        \* qty = int((allocated / 3) / ltp)
        qty       == Floor(allocated, 3 * ltp)
        total_qty == FirstHoldingQty(hs, symbol)
        gtt_symbols == {Upper(g.tradingsymbol) :
                           g \in {x \in Range(gtt_cache) : x.transaction_type = "BUY"}}
        sel == IF total_qty = 0 THEN 1
               ELSE IF total_qty <= qty \div 3 THEN 2
               ELSE IF total_qty <= (2 * qty) \div 3 THEN 3
               ELSE 0
        entry_price == <<scrip.entry1, scrip.entry2, scrip.entry3>>[sel]
        adj == buy_adjust_trigger_and_order_price(
                   BufferedOrderPrice(entry_price, ltp), ltp)
        exceeded == _create_skipped_order(symbol, "Holding exceeded allocated amount",
                                          exchange, ltp, "")
        Answer(records) == [records |-> records, raised |-> FALSE]
    IN  IF Upper(symbol) \in gtt_symbols
        THEN Answer(<<[symbol |-> symbol,
                       skip_reason |-> "GTT already exists for symbol"]>>)
        ELSE IF ltp = NaN \/ ltp = 0 THEN Answer(<<>>)
        ELSE IF allocated = NaN THEN Answer(<<>>)
        ELSE IF qty = 0 THEN Answer(<<>>)
        ELSE IF total_qty >= qty THEN Answer(<<exceeded>>)
        ELSE IF sel = 0 THEN Answer(<<exceeded>>)
        ELSE IF entry_price = NaN THEN [records |-> <<>>, raised |-> TRUE]
        ELSE Answer(<<[symbol |-> symbol, exchange |-> exchange,
                       price |-> adj.order_price, trigger |-> adj.trigger,
                       qty |-> qty, ltp |-> ltp, entry |-> LevelTag(sel)]>>)

----------------------------------------------------------------------------
(* The parts of the state a specification leaves alone *)

IsSuccess(row) == row.status = "Success"
IsAttempt(row) == row.status # "Skipped"
SymbolOf(row) == row.symbol

Op(name, stale, log, error, calls) ==
    [op |-> name, stale |-> stale, log |-> log, error |-> error, calls |-> calls]

AdjIdle ==
    /\ adjIn = [order_price |-> 0, ltp |-> 0]
    /\ adjOut = [fn |-> "none", order_price |-> 0, trigger |-> 0]

PlanIdle ==
    /\ broker_kind = "zerodha"
    /\ entry_levels = <<>>
    /\ holdings = <<>>
    /\ broker_gtts = <<>>
    /\ broker_trades = <<>>
    /\ quotes = [s \in Symbols |-> NaN]
    /\ planner = "none"
    /\ phase = "new"
    /\ candidates = <<>>
    /\ skipped_orders = <<>>
    /\ plan = <<>>

----------------------------------------------------------------------------
(* Specification SpecAdjust: the two price adjusters on every input tried *)

AdjInit ==
    /\ \E ltp \in LtpValues : \E order_price \in OrderPrices(ltp) :
          adjIn = [order_price |-> order_price, ltp |-> ltp]
    /\ adjOut = [fn |-> "none", order_price |-> 0, trigger |-> 0]

\* BaseEntryStrategy.adjust_trigger_and_order_price(order_price, ltp)
CallAdjust ==
    /\ adjOut.fn = "none"
    /\ LET r == adjust_trigger_and_order_price(adjIn.order_price, adjIn.ltp)
       IN  adjOut' = [fn |-> "base", order_price |-> r.order_price,
                      trigger |-> r.trigger]
    /\ UNCHANGED <<adjIn, planVars, sessVars, mgrVars>>

\* BuyOrderPlanner.adjust_trigger_and_order_price(order_price, ltp)
CallBuyAdjust ==
    /\ adjOut.fn = "none"
    /\ LET r == buy_adjust_trigger_and_order_price(adjIn.order_price, adjIn.ltp)
       IN  adjOut' = [fn |-> "buy", order_price |-> r.order_price,
                      trigger |-> r.trigger]
    /\ UNCHANGED <<adjIn, planVars, sessVars, mgrVars>>

----------------------------------------------------------------------------
(* Specification SpecPlan: one planning pass of either planner *)

PlanInit ==
    /\ broker_kind \in {"zerodha", "upstox"}
    /\ entry_levels \in RowLists
    /\ holdings \in HoldingLists
    /\ broker_gtts \in GttLists
    /\ broker_trades \in TradeLists
    /\ quotes \in QuoteMaps
    /\ planner = "none"
    /\ phase = "new"
    /\ candidates = <<>>
    /\ skipped_orders = <<>>
    /\ plan = <<>>

\* MultiLevelEntryStrategy(...).identify_candidates(): the two broker requests
\* answer or fail (last_op keeps whether the conditional orders were obtained)
MLIdentify ==
    /\ planner = "none"
    /\ \E gtt_ok \in BOOLEAN, trades_ok \in BOOLEAN :
          LET r == identify_candidates(entry_levels, get_gtt_orders(gtt_ok),
                                       trades(trades_ok))
          IN  /\ candidates' = r.candidates
              /\ skipped_orders' = skipped_orders \o r.skipped
              /\ last_op' = Op("identify_candidates", FALSE, <<>>,
                               IF gtt_ok THEN "" ELSE "get_gtt_orders_failed", 0)
    /\ planner' = "ml"
    /\ phase' = "identified"
    /\ UNCHANGED <<broker_kind, entry_levels, holdings, broker_gtts, broker_trades,
                   quotes, plan, now, session, plan_file, placed, adjVars, mgrVars>>

\* MultiLevelEntryStrategy.generate_plan(candidates)
MLGenerate ==
    /\ planner = "ml"
    /\ phase = "identified"
    /\ LET r == generate_plan(candidates, holdings)
       IN  /\ plan' = r.plan
           /\ skipped_orders' = skipped_orders \o r.skipped
    /\ phase' = "planned"
    /\ UNCHANGED <<broker_kind, entry_levels, holdings, broker_gtts, broker_trades,
                   quotes, planner, candidates, adjVars, sessVars, mgrVars>>

\* DynamicAveragingPlanner().identify_candidates(): the planner took
\* session.get_gtt_cache(), which is [] when the refresh's request failed
DAIdentify ==
    /\ planner = "none"
    /\ \E gtt_ok \in BOOLEAN :
          LET r == da_identify_candidates(holdings, entry_levels, get_gtt_orders(gtt_ok))
          IN  /\ candidates' = r.candidates
              /\ skipped_orders' = skipped_orders \o r.skipped
              /\ last_op' = Op("identify_candidates", FALSE, <<>>,
                               IF gtt_ok THEN "" ELSE "get_gtt_orders_failed", 0)
    /\ planner' = "da"
    /\ phase' = "identified"
    /\ UNCHANGED <<broker_kind, entry_levels, holdings, broker_gtts, broker_trades,
                   quotes, plan, now, session, plan_file, placed, adjVars, mgrVars>>

\* DynamicAveragingPlanner.generate_buy_plan(candidates)
DAGenerate ==
    /\ planner = "da"
    /\ phase = "identified"
    /\ plan' = generate_buy_plan(candidates)
    /\ phase' = "planned"
    /\ UNCHANGED <<broker_kind, entry_levels, holdings, broker_gtts, broker_trades,
                   quotes, planner, candidates, skipped_orders, adjVars, sessVars, mgrVars>>

----------------------------------------------------------------------------
(* SessionCache, its CMPManager, and the plan slot *)

TTL            == 2    \* the ttl both caches are built with, in clock ticks
MaxRefreshTime == 1    \* ticks between the quote refresh and the end of refresh_all_caches
MaxPlan        == 2    \* orders in a persisted plan
MaxClock       == TTL + 2        \* the clock stops here
MaxPlaced      == MaxPlan        \* placements accepted before the commands stop being tried

\* the [] a list is set to after its fetch failed: self.gtt_cache = [],
\* read_csv's return []
EMPTY == -1

\* what a cache holds is named by the time it was fetched at (the broker may
\* answer differently every tick)
NewSession ==
    [ttl |-> TTL, last_refreshed |-> 0, holdings |-> 0, entry_levels |-> 0,
     gtt_cache |-> 0,
     cmp_cache |-> [holdings |-> 0, gtts |-> 0, entry_levels |-> 0],
     cmp_ttl |-> TTL, cmp_last_updated |-> 0]

is_stale(s, t) == (t - s.last_refreshed) > s.ttl

\* CMPManager._is_cache_valid
_is_cache_valid(s, t) == (t - s.cmp_last_updated) < s.cmp_ttl

refresh_holdings(s, t) == [s EXCEPT !.holdings = t]

\* read_csv answers with the rows (ok), or logs its exception and returns []
refresh_entry_levels(s, t, ok) ==
    [s EXCEPT !.entry_levels = IF ok THEN t ELSE EMPTY]

\* the refresh of the conditional orders stamping the session as refreshed
refresh_gtt_cache_stamping(s, t, ok) ==
    [s EXCEPT !.gtt_cache = IF ok THEN t ELSE EMPTY, !.last_refreshed = t]

\* the request answers (ok) or raises, and the exception is swallowed
refresh_gtt_cache(s, t, ok) == [s EXCEPT !.gtt_cache = IF ok THEN t ELSE EMPTY]

\* CMPManager.refresh_cache(holdings, gtts, entry_levels): quotes for the
\* symbols of the three lists handed over, stamped with time.time()
refresh_cache(s, hs, gtts, rows, t) ==
    [s EXCEPT !.cmp_cache = [holdings |-> hs, gtts |-> gtts, entry_levels |-> rows],
              !.cmp_last_updated = t]

\* gtts = self.kite.get_gtts(): a second request, not the cached list
refresh_cmp_cache(s, t) == refresh_cache(s, s.holdings, t, s.entry_levels, t)

\* how a refresh can go: every request answers; kite.holdings() raises;
\* read_csv fails (swallowed); the conditional-order request of
\* refresh_gtt_cache raises (swallowed); the one of refresh_cmp_cache raises
RefreshOutcomes == {"ok", "holdings_fail", "entry_levels_fail", "gtt_fail", "cmp_fail"}

FullRefreshLog == <<"holdings", "entry_levels", "gtt_cache", "cmp_cache">>

\* a refresh of the holdings alone
refresh_holdings_only(s, t, d, outcome) ==
    [session |-> refresh_holdings(s, t), log |-> <<"holdings">>, raised |-> FALSE,
     end |-> t]

\* last_refreshed set when the run starts instead of when it has completed
refresh_all_caches_stamping_first(s, t, d, outcome) ==
    LET s0 == [s EXCEPT !.last_refreshed = t]
        s1 == refresh_holdings(s0, t)
        s2 == refresh_entry_levels(s1, t, outcome # "entry_levels_fail")
        s3 == refresh_gtt_cache(s2, t, outcome # "gtt_fail")
        s4 == refresh_cmp_cache(s3, t)
    IN  IF outcome = "holdings_fail"
        THEN [session |-> s0, log |-> <<>>, raised |-> TRUE, end |-> t]
        ELSE IF outcome = "cmp_fail"
        THEN [session |-> s3, log |-> SubSeq(FullRefreshLog, 1, 3), raised |-> TRUE,
              end |-> t]
        ELSE [session |-> s4, log |-> FullRefreshLog, raised |-> FALSE, end |-> t + d]

\* the quotes refreshed first, from the lists of the run before
refresh_all_caches_quotes_first(s, t, d, outcome) ==
    LET s1 == refresh_cmp_cache(s, t)
        s2 == refresh_holdings(s1, t)
        s3 == refresh_entry_levels(s2, t, outcome # "entry_levels_fail")
        s4 == refresh_gtt_cache(s3, t, outcome # "gtt_fail")
        s5 == [s4 EXCEPT !.last_refreshed = t + d]
    IN  IF outcome \in {"holdings_fail", "cmp_fail"}
        THEN [session |-> s, log |-> <<>>, raised |-> TRUE, end |-> t]
        ELSE [session |-> s5,
              log |-> <<"cmp_cache", "holdings", "entry_levels", "gtt_cache">>,
              raised |-> FALSE, end |-> t + d]

\* refresh_all_caches started at time t, the quote cache stamped at t, the
\* session d ticks later: [session, log (the refresh steps completed),
\* raised, end (the time on return)]
refresh_all_caches(s, t, d, outcome) ==
    LET s1 == refresh_holdings(s, t)
        s2 == refresh_entry_levels(s1, t, outcome # "entry_levels_fail")
        s3 == refresh_gtt_cache(s2, t, outcome # "gtt_fail")
        s4 == refresh_cmp_cache(s3, t)
        s5 == [s4 EXCEPT !.last_refreshed = t + d]
    IN  IF outcome = "holdings_fail"
        THEN [session |-> s, log |-> <<>>, raised |-> TRUE, end |-> t]
        ELSE IF outcome = "cmp_fail"
        THEN [session |-> s3, log |-> SubSeq(FullRefreshLog, 1, 3), raised |-> TRUE,
              end |-> t]
        ELSE [session |-> s5, log |-> FullRefreshLog, raised |-> FALSE, end |-> t + d]

\* the head of every accessor: if self.is_stale(): self.refresh_all_caches()
ReadThrough(s, t, d, outcome) ==
    IF is_stale(s, t) THEN refresh_all_caches(s, t, d, outcome)
    ELSE [session |-> s, log |-> <<>>, raised |-> FALSE, end |-> t]

\* CMPManager.get_quote: the stale-cache RuntimeError, or the lookup
get_quote_raises(s, t) == ~_is_cache_valid(s, t)

\* the plan slot: whether the file exists, and the list in it
NoPlanFile == [exists |-> FALSE, orders |-> <<>>]

\* the file cut short: the last order of the list is not in it
write_gtt_plan_cut_short(orders) ==
    [exists |-> TRUE,
     orders |-> IF orders = <<>> THEN <<>> ELSE SubSeq(orders, 1, Len(orders) - 1)]

write_gtt_plan(orders) == [exists |-> TRUE, orders |-> orders]

read_gtt_plan(f) == IF ~f.exists THEN <<>> ELSE f.orders

\* the plan file left in place
delete_gtt_plan_skipped(f) == f

\* os.remove(path); a failure (no such file) is logged only
delete_gtt_plan(f) == NoPlanFile

PlanOrder(i) ==
    [symbol |-> IF i % 2 = 1 THEN "FOO" ELSE "BAR", skip_reason |-> ""]

\* the plans a planning command may persist: [], the first orders of
\* FOO, BAR, FOO, .., or one record carrying a skip reason
PlanChoices ==
    {[i \in 1..n |-> PlanOrder(i)] : n \in 0..MaxPlan}
    \cup {<<[symbol |-> "FOO", skip_reason |-> "Computed quantity is 0"]>>}

\* a call the manager makes on the broker or the session: which one, the
\* order it is made for (its place in the plan, or its GTT ID), what is sent
BrokerCall(call, ref, symbol, trigger, price, quantity) ==
    [call |-> call, ref |-> ref, symbol |-> symbol, trigger |-> trigger,
     price |-> price, quantity |-> quantity]

\* self.session.refresh_gtt_cache()
RefreshCall == BrokerCall("refresh_gtt_cache", 0, "", 0, 0, 0)

\* one pass of the loop of place_orders, lines 36-73: the order at place i,
\* broker.place_gtt answering (ok) or raising
PlaceStep(acc, order, i, dry_run, ok) ==
    IF order.skip_reason # ""
    THEN [acc EXCEPT !.results = Append(@, [symbol |-> order.symbol,
                                            status |-> "Skipped",
                                            remarks |-> order.skip_reason])]
    ELSE [results |-> Append(acc.results,
                        [symbol |-> order.symbol,
                         status |-> IF dry_run \/ ok THEN "Success" ELSE "Fail",
                         remarks |-> IF dry_run \/ ok THEN "" ELSE "rejected"]),
          calls |-> IF dry_run THEN acc.calls
                    ELSE Append(acc.calls,
                                BrokerCall("place_gtt", i, order.symbol, 0, 0, 0))]

RECURSIVE PlaceLoop(_, _, _, _)
PlaceLoop(gtt_plan, dry_run, accepted, n) ==
    IF n = 0 THEN [results |-> <<>>, calls |-> <<>>]
    ELSE PlaceStep(PlaceLoop(gtt_plan, dry_run, accepted, n - 1), gtt_plan[n], n,
                   dry_run, n \in accepted)

\* the loop left at the first placement that raises
place_orders_run_failure_ends(gtt_plan, dry_run, accepted) ==
    LET failing == {i \in 1..Len(gtt_plan) :
                       gtt_plan[i].skip_reason = "" /\ ~dry_run /\ i \notin accepted}
        n == IF failing = {} THEN Len(gtt_plan)
             ELSE CHOOSE i \in failing : \A j \in failing : i <= j
        acc == PlaceLoop(gtt_plan, dry_run, accepted, n)
    IN  [results |-> acc.results, calls |-> Append(acc.calls, RefreshCall)]

\* GTTManager.place_orders(gtt_plan, dry_run): the result rows and the calls
\* made, when broker.place_gtt accepts the orders at the places in accepted
\* and raises on the others
place_orders_run(gtt_plan, dry_run, accepted) ==
    LET acc == PlaceLoop(gtt_plan, dry_run, accepted, Len(gtt_plan))
    IN  [results |-> acc.results, calls |-> Append(acc.calls, RefreshCall)]

\* GTTManager.place_orders(gtt_plan, dry_run=False): the result rows
place_orders(gtt_plan, accepted) == place_orders_run(gtt_plan, FALSE, accepted).results

SessIdle ==
    /\ now = 0
    /\ session = NewSession
    /\ plan_file = NoPlanFile
    /\ placed = <<>>
    /\ last_op = Op("init", FALSE, <<>>, "", 0)

\* no call made on the plan slot yet
SlotIdle == slot_log = [calls |-> <<>>, did_read |-> FALSE, read |-> <<>>]

\* BuyOrderPlanner(...).generate_plan(scrip) on one row of the entry levels:
\* session.get_gtt_cache() holds the orders, or [] when its request failed
SLGenerate ==
    /\ planner = "none"
    /\ \E i \in DOMAIN entry_levels, gtt_ok \in BOOLEAN :
          LET r == buy_generate_plan(entry_levels[i], get_gtt_orders(gtt_ok), holdings)
          IN  /\ HasSymbol(entry_levels[i])
              /\ candidates' = <<entry_levels[i]>>
              /\ plan' = FilterSeq(LAMBDA rec : ~IsSkip(rec), r.records)
              /\ skipped_orders' = skipped_orders \o FilterSeq(IsSkip, r.records)
              /\ phase' = IF r.raised THEN "raised" ELSE "planned"
              /\ last_op' = Op("generate_plan", FALSE, <<>>,
                               IF gtt_ok THEN "" ELSE "get_gtt_orders_failed", 0)
    /\ planner' = "sl"
    /\ UNCHANGED <<broker_kind, entry_levels, holdings, broker_gtts, broker_trades,
                   quotes, now, session, plan_file, placed, adjVars, mgrVars>>

----------------------------------------------------------------------------
(* Specification SpecLevel: the level selection of the multi-level planner *)

\* the candidates the selection is tried on: 300.00 a level allocated to
\* entry1 = 100, entry2 = 90, entry3 = 80, each of them present or not, at
\* least one present (identify_candidates lets no other row through)
LevelScrips ==
    {Candidate(Row("FOO", RowConfig(3000000, e1, e2, e3, FALSE, 1))) :
        e1 \in {10000, NaN}, e2 \in {9000, NaN}, e3 \in {8000, NaN}}
    \ {Candidate(Row("FOO", RowConfig(3000000, NaN, NaN, NaN, FALSE, 1)))}

\* amounts invested so far, all below the allocation (generate_plan skips
\* the others before it selects a level): nothing, just below and at the
\* ceilings of a third and of a half, just below the allocation
InvestedAmounts == {0, 999900, 1000000, 1500000, 2000000, 2970000}

\* current prices between, below and above the entry prices
LevelLtps == {7900, 8500, 9500, 10500}

LevelInit ==
    /\ mgr_in \in [op : {"level"}, scrip : LevelScrips,
                   invested_amount : InvestedAmounts, ltp : LevelLtps]
    /\ mgr_out = [op |-> "none"]
    /\ SlotIdle
    /\ fetch = [pc |-> "idle"]

\* generate_plan line 209: self._determine_entry_level(scrip, invested_amount, ltp)
DetermineEntryLevel ==
    /\ mgr_in.op = "level"
    /\ mgr_out.op = "none"
    /\ LET lvl == _determine_entry_level(mgr_in.scrip, mgr_in.invested_amount,
                                         mgr_in.ltp)
       IN  mgr_out' = [op |-> "_determine_entry_level", level |-> lvl.level,
                       price |-> lvl.price, max_investment |-> lvl.max_investment,
                       qty |-> NaN]
    /\ UNCHANGED <<slot_log, mgr_in, fetch, adjVars, planVars, sessVars>>

\* generate_plan lines 214-236 on the level selected: the amount to invest
\* and self._calculate_quantity(amount_to_invest, entry_price)
CalculateQuantity ==
    /\ mgr_out.op = "_determine_entry_level"
    /\ mgr_out.level # ""
    /\ LET invested_amount == mgr_in.invested_amount
           amount_to_invest == Min(mgr_out.max_investment - invested_amount,
                                   mgr_in.scrip.Allocated - invested_amount)
       IN  /\ amount_to_invest > 0
           /\ mgr_out' = [mgr_out EXCEPT
                             !.op = "_calculate_quantity",
                             !.qty = _calculate_quantity(amount_to_invest,
                                                         mgr_out.price)]
    /\ UNCHANGED <<slot_log, mgr_in, fetch, adjVars, planVars, sessVars>>

----------------------------------------------------------------------------
(* Specification SpecSession: the session over time *)

Accessors == {"get_holdings", "get_entry_levels", "get_gtt_cache",
              "get_cmp_manager", "get_existing_gtt_symbols"}

PlaceOps == {"place_gtt_orders", "place_dynamic_averaging_orders",
             "api_place_gtt_orders"}

\* the ways a refresh started now may go: its duration and its outcome
AllRefreshRuns ==
    {run \in [d : 0..MaxRefreshTime, outcome : RefreshOutcomes] :
        /\ now + run.d <= MaxClock
        /\ run.outcome \in {"holdings_fail", "cmp_fail"} => run.d = 0}

\* the same with data/entry_levels.csv readable, as the session over time has it
RefreshRuns ==
    {run \in [d : 0..MaxRefreshTime,
              outcome : RefreshOutcomes \ {"entry_levels_fail"}] :
        /\ now + run.d <= MaxClock
        /\ run.outcome \in {"holdings_fail", "cmp_fail"} => run.d = 0}

\* the same for a read-through: nothing to choose when the session is fresh
ReadThroughRuns ==
    IF is_stale(session, now) THEN RefreshRuns ELSE {[d |-> 0, outcome |-> "ok"]}

\* time passes
Tick ==
    /\ now < MaxClock
    /\ now' = now + 1
    /\ last_op' = Op("tick", FALSE, <<>>, "", 0)
    /\ UNCHANGED <<session, plan_file, placed, adjVars, planVars, mgrVars>>

\* one accessor call: read-through, then the field is returned
Accessor(name) ==
    \E run \in ReadThroughRuns :
        /\ LET r == ReadThrough(session, now, run.d, run.outcome)
           IN  /\ session' = r.session
               /\ now' = r.end
               /\ last_op' = Op(name, is_stale(session, now), r.log,
                                IF r.raised THEN "refresh_failed" ELSE "", 0)
        /\ UNCHANGED <<plan_file, placed, adjVars, planVars, mgrVars>>

get_holdings == Accessor("get_holdings")
get_entry_levels == Accessor("get_entry_levels")
get_gtt_cache == Accessor("get_gtt_cache")
get_cmp_manager == Accessor("get_cmp_manager")
get_existing_gtt_symbols == Accessor("get_existing_gtt_symbols")

\* a command's opening session.refresh_all_caches()
RefreshAll ==
    \E run \in RefreshRuns :
        /\ LET r == refresh_all_caches(session, now, run.d, run.outcome)
           IN  /\ session' = r.session
               /\ now' = r.end
               /\ last_op' = Op("refresh_all_caches", is_stale(session, now), r.log,
                                IF r.raised THEN "refresh_failed" ELSE "", 0)
        /\ UNCHANGED <<plan_file, placed, adjVars, planVars, mgrVars>>

\* session.get_cmp_manager().get_cmp(exchange, symbol): the read-through
\* price read, the clock standing still between the two calls
GetCmpThroughSession ==
    \E run \in ReadThroughRuns :
        /\ LET r == ReadThrough(session, now, run.d, run.outcome)
           IN  /\ session' = r.session
               /\ now' = r.end
               /\ last_op' = Op("get_cmp", is_stale(session, now), r.log,
                                IF r.raised THEN "refresh_failed"
                                ELSE IF get_quote_raises(r.session, r.end)
                                THEN "stale_cache" ELSE "", 0)
        /\ UNCHANGED <<plan_file, placed, adjVars, planVars, mgrVars>>

\* a planning command persists its plan: session.write_gtt_plan(new_orders)
WritePlan ==
    /\ \E orders \in PlanChoices :
          /\ Len(placed) + Len(orders) <= MaxPlaced
          /\ plan_file' = write_gtt_plan(orders)
    /\ last_op' = Op("write_gtt_plan", FALSE, <<>>, "", 0)
    /\ UNCHANGED <<now, session, placed, adjVars, planVars, mgrVars>>

\* a placement command: refresh_all_caches, read the plan, return if it is
\* empty, build the GTTManager (get_cmp_manager), place_orders (which ends
\* with session.refresh_gtt_cache), delete_gtt_plan
PlaceCommand(name) ==
    \E run \in RefreshRuns :
        /\ Len(placed) <= MaxPlaced
        /\ LET r0 == refresh_all_caches(session, now, run.d, run.outcome)
               new_orders == read_gtt_plan(plan_file)
               r1 == ReadThrough(r0.session, r0.end, 0, run.outcome)
               stale == is_stale(session, now)
           IN  /\ now' = r0.end
               /\ IF r0.raised
                  THEN /\ session' = r0.session
                       /\ last_op' = Op(name, stale, r0.log, "refresh_failed", 0)
                       /\ UNCHANGED <<plan_file, placed>>
                  ELSE IF new_orders = <<>>
                  THEN /\ session' = r0.session
                       /\ last_op' = Op(name, stale, r0.log, "no_plan", 0)
                       /\ UNCHANGED <<plan_file, placed>>
                  ELSE IF r1.raised
                  THEN /\ session' = r1.session
                       /\ last_op' = Op(name, stale, r0.log \o r1.log,
                                        "refresh_failed", 0)
                       /\ UNCHANGED <<plan_file, placed>>
                  ELSE \E gtt_ok \in BOOLEAN,
                          accepted \in SUBSET (1..Len(new_orders)) :
                       LET rows == place_orders(new_orders, accepted)
                       IN  /\ session' = refresh_gtt_cache(r1.session, r0.end, gtt_ok)
                           /\ placed' = placed \o MapSeq(SymbolOf,
                                                         FilterSeq(IsSuccess, rows))
                           /\ plan_file' = delete_gtt_plan(plan_file)
                           /\ last_op' = Op(name, stale,
                                            r0.log \o r1.log \o <<"gtt_cache">>, "",
                                            Len(FilterSeq(IsAttempt, rows)))
        /\ UNCHANGED <<adjVars, planVars, mgrVars>>

\* cli.place_gtt_orders
place_gtt_orders == PlaceCommand("place_gtt_orders")

\* cli.place_dynamic_averaging_orders: its deletion step finds nothing to
\* delete, the entries of session.get_gtt_cache() having no "orders" key
place_dynamic_averaging_orders == PlaceCommand("place_dynamic_averaging_orders")

\* api.place_gtt_orders
api_place_gtt_orders == PlaceCommand("api_place_gtt_orders")

----------------------------------------------------------------------------
(* GTTManager: analysis of the cached conditional orders *)

MaxGtts == 3      \* entries in the conditional-order cache

\* the entries the cache is filled with (session.py lines 55-67), trigger
\* standing for trigger_values[0] and NaN for none: FOO at 5.26% and at 0.10%
\* below its quote, BAR at 10.56%, a cancelled order, a SELL, an order without
\* trigger
GttKinds ==
    {[tradingsymbol |-> "FOO", status |-> "active", transaction_type |-> "BUY",
      trigger |-> 9500, price |-> 9490, quantity |-> 10],
     [tradingsymbol |-> "FOO", status |-> "active", transaction_type |-> "BUY",
      trigger |-> 9990, price |-> 9980, quantity |-> 5],
     [tradingsymbol |-> "BAR", status |-> "active", transaction_type |-> "BUY",
      trigger |-> 9000, price |-> 8990, quantity |-> 10],
     [tradingsymbol |-> "BAR", status |-> "cancelled", transaction_type |-> "BUY",
      trigger |-> 9000, price |-> 8990, quantity |-> 10],
     [tradingsymbol |-> "FOO", status |-> "active", transaction_type |-> "SELL",
      trigger |-> 11000, price |-> 11010, quantity |-> 10],
     [tradingsymbol |-> "BAR", status |-> "active", transaction_type |-> "BUY",
      trigger |-> NaN, price |-> 8990, quantity |-> 10]}

CachedGtt(kind, id) ==
    [id |-> id, tradingsymbol |-> kind.tradingsymbol, exchange |-> "NSE",
     status |-> kind.status, transaction_type |-> kind.transaction_type,
     trigger |-> kind.trigger, price |-> kind.price, quantity |-> kind.quantity]

GttCaches ==
    UNION {{[i \in 1..n |-> CachedGtt(ks[i], i)] : ks \in [1..n -> GttKinds]} :
              n \in 0..MaxGtts}

\* the quote cache: FOO at 100.00 or absent, BAR at 99.50 or absent
CmpCaches == [Symbols -> {NaN, 10000, 9950}] \cap
             {q \in [Symbols -> {NaN, 10000, 9950}] :
                 q["FOO"] \in {NaN, 10000} /\ q["BAR"] \in {NaN, 9950}}

AllQuoted == [s \in Symbols |-> IF s = "FOO" THEN 10000 ELSE 9950]

TRANSACTION_TYPE_BUY == "BUY"

\* GTTManager._parse_gtt on an entry of the cache (no "orders" list in it)
_parse_gtt(g) ==
    [transaction_type |-> g.transaction_type, qty |-> g.quantity, price |-> g.price,
     symbol |-> g.tradingsymbol, exchange |-> g.exchange, id |-> g.id,
     status |-> g.status, trigger |-> g.trigger]

\* round(((ltp - trigger) / trigger) * 100, 2), in hundredths of a percent
Variance(ltp, trigger) == RoundHalfEven((ltp - trigger) * 10000, trigger)

\* lines 87-98: the order gets as far as the price lookup
IsPricedBuy(d) ==
    /\ d.status = "active"
    /\ d.transaction_type = TRANSACTION_TYPE_BUY
    /\ d.symbol # "" /\ d.exchange # "" /\ d.trigger # NaN

\* lines 105-121
AnalysisRow(d, ltp) ==
    [id |-> d.id, symbol |-> d.symbol, exchange |-> d.exchange, trigger |-> d.trigger,
     ltp |-> ltp, variance |-> Variance(ltp, d.trigger), qty |-> d.qty,
     buy_amount |-> (d.qty * ltp) \div 100]

\* the row put behind every row of a variance not above its own
InsertByVariance(rows, row) ==
    LET k == Cardinality({i \in 1..Len(rows) : rows[i].variance <= row.variance})
    IN  SubSeq(rows, 1, k) \o <<row>> \o SubSeq(rows, k + 1, Len(rows))

\* the rows in the order they were appended
SortByVariance_unsorted(rows) == rows

\* sorted(orders, key=lambda x: x["Variance (%)"]): ascending, equal keys in
\* their first order
RECURSIVE SortByVariance(_)
SortByVariance(rows) ==
    IF rows = <<>> THEN <<>>
    ELSE InsertByVariance(SortByVariance(SubSeq(rows, 1, Len(rows) - 1)),
                          rows[Len(rows)])

\* GTTManager.analyze_gtt_buy_orders on the cache gtts, the quote cache
\* holding quotes and being valid or not: get_cmp raises on a cache that is
\* not, and the except clause returns []
analyze_gtt_buy_orders(gtts, cmp_cache, valid) ==
    LET details == [i \in 1..Len(gtts) |-> _parse_gtt(gtts[i])]
        priced  == SelectSeq(details, IsPricedBuy)
        quoted  == SelectSeq(priced, LAMBDA d : cmp_cache[d.symbol] # NaN)
        orders  == [i \in 1..Len(quoted) |->
                       AnalysisRow(quoted[i], cmp_cache[quoted[i].symbol])]
    IN  IF priced # <<>> /\ ~valid THEN <<>> ELSE SortByVariance(orders)

\* the keys of Counter(seq), in the order of their first occurrence
RECURSIVE FirstSeen(_)
FirstSeen(seq) ==
    IF seq = <<>> THEN <<>>
    ELSE LET front == FirstSeen(SubSeq(seq, 1, Len(seq) - 1))
             x == seq[Len(seq)]
         IN  IF \E i \in 1..Len(front) : front[i] = x THEN front ELSE Append(front, x)

\* lines 136-138
IsActiveBuy(d) ==
    d.status = "active" /\ d.transaction_type = TRANSACTION_TYPE_BUY /\ d.symbol # ""

\* every symbol of the cache counted, whatever its order's status or side
get_duplicate_gtt_symbols_any_status(gtts) ==
    LET symbols == [i \in 1..Len(gtts) |-> gtts[i].tradingsymbol]
    IN  SelectSeq(FirstSeen(symbols),
                  LAMBDA x : Cardinality({i \in 1..Len(symbols) : symbols[i] = x}) > 1)

\* GTTManager.get_duplicate_gtt_symbols
get_duplicate_gtt_symbols(gtts) ==
    LET details == [i \in 1..Len(gtts) |-> _parse_gtt(gtts[i])]
        active  == SelectSeq(details, IsActiveBuy)
        active_buy_symbols == [i \in 1..Len(active) |-> active[i].symbol]
    IN  SelectSeq(FirstSeen(active_buy_symbols),
                  LAMBDA x : Cardinality({i \in 1..Len(active_buy_symbols) :
                                             active_buy_symbols[i] = x}) > 1)

\* lines 156-160: an active BUY order with a price and a quantity
IsCountedBuy(d) ==
    /\ d.status = "active"
    /\ d.transaction_type = TRANSACTION_TYPE_BUY
    /\ d.price # NaN /\ d.price # 0 /\ d.qty # NaN /\ d.qty # 0

\* the sum without the test on the order's status
get_total_buy_gtt_amount_any_status(gtts, cmp_cache, valid, threshold) ==
    LET buys == SelectSeq([i \in 1..Len(gtts) |-> _parse_gtt(gtts[i])],
                          LAMBDA d : d.transaction_type = TRANSACTION_TYPE_BUY)
    IN  SumSeq([i \in 1..Len(buys) |-> buys[i].price * buys[i].qty])

\* GTTManager.get_total_buy_gtt_amount(threshold), NaN for threshold=None; in
\* paise. With a threshold the price lookup raises on a quote cache that is
\* not valid, and the except clause returns 0.0
get_total_buy_gtt_amount(gtts, cmp_cache, valid, threshold) ==
    LET details == [i \in 1..Len(gtts) |-> _parse_gtt(gtts[i])]
        counted == SelectSeq(details, IsCountedBuy)
        looked_up == SelectSeq(counted, LAMBDA d : d.trigger # NaN)
        within == SelectSeq(looked_up,
                     LAMBDA d : /\ cmp_cache[d.symbol] # NaN
                                /\ Variance(cmp_cache[d.symbol], d.trigger) <= threshold)
        summed == IF threshold = NaN THEN counted ELSE within
    IN  IF threshold # NaN /\ looked_up # <<>> /\ ~valid THEN 0
        ELSE SumSeq([i \in 1..Len(summed) |-> summed[i].price * summed[i].qty])

\* the thresholds a total is asked for: none, 5%, 15%
Thresholds == {NaN, 500, 1500}

----------------------------------------------------------------------------
(* Specification SpecAnalysis: the analyses on a session over time *)

AnalysisInit ==
    /\ mgr_in \in [gtt_cache : GttCaches, cmp_cache : CmpCaches]
    /\ mgr_out = [op |-> "none"]
    /\ SlotIdle
    /\ fetch = [pc |-> "idle"]

\* session.get_gtt_cache() at the head of every analysis: the read-through,
\* the broker answering with the orders and quotes it answered with before
AnalysisReadThrough == ReadThrough(session, now, 0, "ok").session

\* manager.analyze_gtt_buy_orders()
AnalyzeOrders ==
    /\ session' = AnalysisReadThrough
    /\ LET valid == _is_cache_valid(session', now)
       IN  mgr_out' = [op |-> "analyze_gtt_buy_orders", threshold |-> NaN,
                       valid |-> valid,
                       result |-> analyze_gtt_buy_orders(mgr_in.gtt_cache,
                                                         mgr_in.cmp_cache, valid)]
    /\ UNCHANGED <<now, plan_file, placed, last_op, slot_log, mgr_in, fetch,
                   adjVars, planVars>>

\* manager.get_duplicate_gtt_symbols()
DuplicateSymbols ==
    /\ session' = AnalysisReadThrough
    /\ mgr_out' = [op |-> "get_duplicate_gtt_symbols", threshold |-> NaN,
                   valid |-> _is_cache_valid(session', now),
                   result |-> get_duplicate_gtt_symbols(mgr_in.gtt_cache)]
    /\ UNCHANGED <<now, plan_file, placed, last_op, slot_log, mgr_in, fetch,
                   adjVars, planVars>>

\* manager.get_total_buy_gtt_amount(threshold)
TotalBuyAmount ==
    /\ session' = AnalysisReadThrough
    /\ \E threshold \in Thresholds :
          LET valid == _is_cache_valid(session', now)
          IN  mgr_out' = [op |-> "get_total_buy_gtt_amount", threshold |-> threshold,
                          valid |-> valid,
                          result |-> get_total_buy_gtt_amount(mgr_in.gtt_cache,
                                         mgr_in.cmp_cache, valid, threshold)]
    /\ UNCHANGED <<now, plan_file, placed, last_op, slot_log, mgr_in, fetch,
                   adjVars, planVars>>

----------------------------------------------------------------------------
(* GTTManager: placing, adjusting and deleting *)

\* new_trigger = round(order["LTP"] / (1 + target_variance / 100), 2), the
\* target in hundredths of a percent
ImpliedTrigger(ltp, target_variance) == RoundHalfEven(ltp * 10000, 10000 + target_variance)

\* how the broker answers the calls made for one order
Answers == {"ok", "cancel_raises", "place_raises"}

\* one pass of the loop of adjust_orders, lines 191-220
AdjustStep(acc, order, target_variance, answer) ==
    IF order.variance < target_variance
    THEN LET p == adjust_trigger_and_order_price(
                      ImpliedTrigger(order.ltp, target_variance), order.ltp)
             cancel == BrokerCall("cancel_gtt", order.id, order.symbol, 0, 0, 0)
             place  == BrokerCall("place_gtt", order.id, order.symbol, p.trigger,
                                  p.order_price, order.qty)
         IN  CASE answer = "cancel_raises" ->
                    [acc EXCEPT !.calls = Append(@, cancel)]
               [] answer = "place_raises" ->
                    [acc EXCEPT !.calls = @ \o <<cancel, place>>]
               [] OTHER ->
                    [results |-> Append(acc.results,
                                   [symbol |-> order.symbol, trigger |-> p.trigger,
                                    ltp |-> order.ltp,
                                    variance |-> Variance(order.ltp, p.trigger)]),
                     calls |-> acc.calls \o <<cancel, place>>]
    ELSE acc

RECURSIVE AdjustLoop(_, _, _, _)
AdjustLoop(orders, target_variance, answers, n) ==
    IF n = 0 THEN [results |-> <<>>, calls |-> <<>>]
    ELSE AdjustStep(AdjustLoop(orders, target_variance, answers, n - 1), orders[n],
                    target_variance, answers[n])

\* GTTManager.adjust_orders(orders, target_variance,
\* BaseEntryStrategy.adjust_trigger_and_order_price): the list returned and
\* the calls made
adjust_orders(orders, target_variance, answers) ==
    LET acc == AdjustLoop(orders, target_variance, answers, Len(orders))
    IN  [results |-> acc.results, calls |-> Append(acc.calls, RefreshCall)]

\* one pass of the loop of delete_orders_above_variance, lines 227-233
DeleteStep(acc, order, threshold, answer) ==
    IF order.variance > threshold
    THEN LET cancel == BrokerCall("cancel_gtt", order.id, order.symbol, 0, 0, 0)
         IN  IF answer = "cancel_raises"
             THEN [acc EXCEPT !.calls = Append(@, cancel)]
             ELSE [results |-> Append(acc.results, order.symbol),
                   calls |-> Append(acc.calls, cancel)]
    ELSE acc

RECURSIVE DeleteLoop(_, _, _, _)
DeleteLoop(orders, threshold, answers, n) ==
    IF n = 0 THEN [results |-> <<>>, calls |-> <<>>]
    ELSE DeleteStep(DeleteLoop(orders, threshold, answers, n - 1), orders[n],
                    threshold, answers[n])

\* the cache refreshed after every cancellation
RECURSIVE DeleteLoopRefreshing(_, _, _, _)
DeleteLoopRefreshing(orders, threshold, answers, n) ==
    IF n = 0 THEN [results |-> <<>>, calls |-> <<>>]
    ELSE LET before == DeleteLoopRefreshing(orders, threshold, answers, n - 1)
             after  == DeleteStep(before, orders[n], threshold, answers[n])
         IN  IF after = before THEN after
             ELSE [after EXCEPT !.calls = Append(@, RefreshCall)]

delete_orders_above_variance_refreshing(orders, threshold, answers) ==
    LET acc == DeleteLoopRefreshing(orders, threshold, answers, Len(orders))
    IN  [results |-> acc.results,
         calls |-> IF acc.calls = <<>> THEN <<RefreshCall>> ELSE acc.calls]

\* GTTManager.delete_orders_above_variance(orders, threshold): the symbols
\* returned and the calls made
delete_orders_above_variance(orders, threshold, answers) ==
    LET acc == DeleteLoop(orders, threshold, answers, Len(orders))
    IN  [results |-> acc.results, calls |-> Append(acc.calls, RefreshCall)]

----------------------------------------------------------------------------
(* Specification SpecReconcile: one call of place_orders, adjust_orders or
   delete_orders_above_variance, on a session of any age *)

\* an entry of a plan handed to place_orders: an order, or a skip-tagged one
PlaceEntries ==
    {[symbol |-> "FOO", skip_reason |-> ""], [symbol |-> "BAR", skip_reason |-> ""],
     [symbol |-> "FOO", skip_reason |-> "Computed quantity is 0"]}

PlacePlans == UNION {[1..n -> PlaceEntries] : n \in 0..(MaxPlan + 1)}

\* the rows the commands hand to adjust_orders and
\* delete_orders_above_variance: those of analyze_gtt_buy_orders
AnalysedOrders == {analyze_gtt_buy_orders(c, AllQuoted, TRUE) : c \in GttCaches}

\* target_variance of adjust_gtt_orders: 0.20% and 5%
TargetVariances == {20, 500}

\* threshold of delete_gtt_orders: 5% and 10%
DeleteThresholds == {500, 1000}

ReconcileOps == {"place_orders", "adjust_orders", "delete_orders_above_variance"}

ReconcileCalls ==
    {[op |-> "place_orders", orders |-> p, dry_run |-> d, target |-> NaN] :
        p \in PlacePlans, d \in BOOLEAN}
    \cup {[op |-> "adjust_orders", orders |-> o, dry_run |-> FALSE, target |-> t] :
             o \in AnalysedOrders, t \in TargetVariances}
    \cup {[op |-> "delete_orders_above_variance", orders |-> o, dry_run |-> FALSE,
           target |-> t] : o \in AnalysedOrders, t \in DeleteThresholds}

ReconcileInit ==
    /\ mgr_in \in ReconcileCalls
    /\ mgr_out = [op |-> "none"]
    /\ SlotIdle
    /\ fetch = [pc |-> "idle"]

\* the call returns: what it returned, the calls it made, the cache as its
\* closing refresh_gtt_cache leaves it
Returned(run, answers) ==
    /\ mgr_out' = [op |-> mgr_in.op, answers |-> answers, results |-> run.results,
                   calls |-> run.calls]
    /\ \E gtt_ok \in BOOLEAN : session' = refresh_gtt_cache(session, now, gtt_ok)
    /\ UNCHANGED <<now, plan_file, placed, last_op, slot_log, mgr_in, fetch,
                   adjVars, planVars>>

\* manager.place_orders(gtt_plan, dry_run)
PlaceOrders ==
    /\ mgr_in.op = "place_orders"
    /\ mgr_out.op = "none"
    /\ \E answers \in [1..Len(mgr_in.orders) -> {"ok", "place_raises"}] :
          Returned(place_orders_run(mgr_in.orders, mgr_in.dry_run,
                                    {i \in 1..Len(mgr_in.orders) : answers[i] = "ok"}),
                   answers)

\* manager.adjust_orders(orders, target_variance, adjust_fn)
AdjustOrders ==
    /\ mgr_in.op = "adjust_orders"
    /\ mgr_out.op = "none"
    /\ \E answers \in [1..Len(mgr_in.orders) -> Answers] :
          Returned(adjust_orders(mgr_in.orders, mgr_in.target, answers), answers)

\* manager.delete_orders_above_variance(orders, threshold)
DeleteOrders ==
    /\ mgr_in.op = "delete_orders_above_variance"
    /\ mgr_out.op = "none"
    /\ \E answers \in [1..Len(mgr_in.orders) -> {"ok", "cancel_raises"}] :
          Returned(delete_orders_above_variance(mgr_in.orders, mgr_in.target, answers),
                   answers)

----------------------------------------------------------------------------
(* CMPManager._fetch_bulk_quote_upstox, and specification SpecQuotes *)

batch_size == 50

MaxBatches == 3     \* batches the instrument keys fill

\* how many instrument keys there are: none, or enough for 1..MaxBatches
\* batches, the last one holding a single key or full
KeyCounts ==
    {0} \cup {b * batch_size + r : b \in 0..(MaxBatches - 1), r \in {1, batch_size}}

\* instrument_keys[i:i + batch_size] of the pass numbered b (from 1)
BatchKeys(n, b) == {k \in 1..n : (b - 1) * batch_size < k /\ k <= b * batch_size}

\* range(0, len(instrument_keys), batch_size)
NumBatches(n) == (n + batch_size - 1) \div batch_size

\* what the quote API answers to the first request of a batch: the quotes, a
\* 401 whose errorCode is UDAPI100050, a 401 of another kind (another
\* errorCode, or a body response.json() cannot read), another status
FirstAnswers == {"200", "401_UDAPI100050", "401_other", "500"}

\* generate_new_upstox_token returns the token or raises
TokenAnswers == {"ok", "raises"}

\* what the quote API answers to the retry
RetryAnswers == {"200", "401", "500"}

FetchEvent(ev, b, token, answer) ==
    [ev |-> ev, batch |-> b, token |-> token, answer |-> answer]

\* lines 68-88: the token, the instrument keys, and the return {} when there
\* are none
BeginFetchOf(n) ==
    [pc |-> IF n = 0 THEN "done" ELSE "loop", n |-> n, i |-> 0, token |-> 0,
     quote_map |-> {}, log |-> <<>>]

\* one pass of the loop, lines 90-115, on the state f of the download
fetch_batch_steps(f, first, regen, retry) ==
    LET b       == f.i + 1
        keys    == BatchKeys(f.n, b)
        request == FetchEvent("fetch", b, f.token, first)
        next    == [f EXCEPT !.i = b]
    IN  CASE first = "200" ->
               [next EXCEPT !.quote_map = @ \cup keys, !.log = Append(@, request)]
          [] first = "401_UDAPI100050" /\ regen = "raises" ->
               [next EXCEPT !.log = @ \o <<request,
                                           FetchEvent("token", b, f.token, regen)>>]
          [] first = "401_UDAPI100050" /\ regen = "ok" ->
               [next EXCEPT
                  !.token = f.token + 1,
                  !.quote_map = IF retry = "200" THEN @ \cup keys ELSE @,
                  !.log = @ \o <<request,
                                 FetchEvent("token", b, f.token + 1, regen),
                                 FetchEvent("fetch", b, f.token + 1, retry)>>]
          [] OTHER ->
               [next EXCEPT !.log = Append(@, request)]

\* the loop left at the first batch that ends without its quotes
fetch_batch_giving_up(f, first, regen, retry) ==
    LET after == fetch_batch_steps(f, first, regen, retry)
    IN  IF BatchKeys(f.n, f.i + 1) \subseteq after.quote_map THEN after
        ELSE [after EXCEPT !.i = NumBatches(f.n)]

fetch_batch(f, first, regen, retry) == fetch_batch_steps(f, first, regen, retry)

QuotesInit ==
    /\ fetch \in [pc : {"start"}, n : KeyCounts]
    /\ SlotIdle
    /\ mgr_in = [op |-> "none"]
    /\ mgr_out = [op |-> "none"]

\* _fetch_bulk_quote_upstox(symbols) is called
BeginFetch ==
    /\ fetch.pc = "start"
    /\ fetch' = BeginFetchOf(fetch.n)
    /\ UNCHANGED <<slot_log, mgr_in, mgr_out, adjVars, planVars, sessVars>>

\* one pass of its loop
FetchBatch ==
    /\ fetch.pc = "loop"
    /\ fetch.i < NumBatches(fetch.n)
    /\ \E first \in FirstAnswers, regen \in TokenAnswers, retry \in RetryAnswers :
          fetch' = fetch_batch(fetch, first, regen, retry)
    /\ UNCHANGED <<slot_log, mgr_in, mgr_out, adjVars, planVars, sessVars>>

\* the loop is through: return quote_map
EndFetch ==
    /\ fetch.pc = "loop"
    /\ fetch.i >= NumBatches(fetch.n)
    /\ fetch' = [fetch EXCEPT !.pc = "done"]
    /\ UNCHANGED <<slot_log, mgr_in, mgr_out, adjVars, planVars, sessVars>>

----------------------------------------------------------------------------
(* Specification SpecRefresh: the planning commands, each opening with a refresh *)

PlanOps == {"list_entry_levels", "plan_dynamic_avg"}

\* what the planner can come to on the lists of session s: nothing to plan
\* from an empty list of entry levels
PlansFrom(s) == IF s.entry_levels = EMPTY THEN {<<>>} ELSE PlanChoices

\* a planning command: refresh_all_caches, the planner on the session's
\* lists, write_gtt_plan; an exception of the refresh ends the command
PlanCommand(name) ==
    \E run \in AllRefreshRuns :
        LET r == refresh_all_caches(session, now, run.d, run.outcome)
            stale == is_stale(session, now)
        IN  /\ now' = r.end
            /\ session' = r.session
            /\ IF r.raised
               THEN /\ last_op' = Op(name, stale, r.log, "refresh_failed", 0)
                    /\ UNCHANGED plan_file
               ELSE /\ last_op' = Op(name, stale, r.log, "", 0)
                    /\ \E orders \in PlansFrom(r.session) :
                          plan_file' = write_gtt_plan(orders)
            /\ UNCHANGED <<placed, adjVars, planVars, mgrVars>>

\* cli.list_entry_levels, api.list_entry_levels
list_entry_levels == PlanCommand("list_entry_levels")

\* cli.plan_dynamic_avg, api.plan_dynamic_avg
plan_dynamic_avg == PlanCommand("plan_dynamic_avg")

----------------------------------------------------------------------------
(* Specification SpecSlot: the plan slot under its three operations *)

\* the calls made on the slot so far are kept up to this many
MaxSlotOps == MaxPlan + 1

\* who persists a plan: the CLI commands and the API endpoints
Writers == {"cli", "api"}

\* session.write_gtt_plan(orders) by one of the writers
SlotWrite ==
    /\ Len(slot_log.calls) < MaxSlotOps
    /\ \E w \in Writers, orders \in PlanChoices :
          /\ plan_file' = write_gtt_plan(orders)
          /\ slot_log' = [calls |-> Append(slot_log.calls,
                                           [op |-> "write", by |-> w, orders |-> orders]),
                          did_read |-> FALSE, read |-> <<>>]
    /\ UNCHANGED <<now, session, placed, last_op, mgr_in, mgr_out, fetch,
                   adjVars, planVars>>

\* session.read_gtt_plan()
SlotRead ==
    /\ slot_log' = [slot_log EXCEPT !.did_read = TRUE,
                                    !.read = read_gtt_plan(plan_file)]
    /\ UNCHANGED <<now, session, plan_file, placed, last_op, mgr_in, mgr_out, fetch,
                   adjVars, planVars>>

\* session.delete_gtt_plan()
SlotDelete ==
    /\ Len(slot_log.calls) < MaxSlotOps
    /\ plan_file' = delete_gtt_plan(plan_file)
    /\ slot_log' = [calls |-> Append(slot_log.calls,
                                     [op |-> "delete", by |-> "", orders |-> <<>>]),
                    did_read |-> FALSE, read |-> <<>>]
    /\ UNCHANGED <<now, session, placed, last_op, mgr_in, mgr_out, fetch,
                   adjVars, planVars>>

\* nothing of the plan slot history, the manager or the quote download in use
MgrIdle ==
    /\ SlotIdle
    /\ mgr_in = [op |-> "none"]
    /\ mgr_out = [op |-> "none"]
    /\ fetch = [pc |-> "idle"]

----------------------------------------------------------------------------
(* The specifications *)

InitAdjust == AdjInit /\ PlanIdle /\ SessIdle /\ MgrIdle
NextAdjust == CallAdjust \/ CallBuyAdjust
SpecAdjust == InitAdjust /\ [][NextAdjust]_vars

InitPlan == AdjIdle /\ PlanInit /\ SessIdle /\ MgrIdle
NextPlan == MLIdentify \/ MLGenerate \/ DAIdentify \/ DAGenerate \/ SLGenerate
SpecPlan == InitPlan /\ [][NextPlan]_vars

InitSession == AdjIdle /\ PlanIdle /\ SessIdle /\ MgrIdle
NextSession ==
    \/ Tick
    \/ get_holdings
    \/ get_entry_levels
    \/ get_gtt_cache
    \/ get_cmp_manager
    \/ get_existing_gtt_symbols
    \/ RefreshAll
    \/ GetCmpThroughSession
    \/ WritePlan
    \/ place_gtt_orders
    \/ place_dynamic_averaging_orders
    \/ api_place_gtt_orders
SpecSession == InitSession /\ [][NextSession]_vars

InitRefresh == AdjIdle /\ PlanIdle /\ SessIdle /\ MgrIdle
NextRefresh == Tick \/ list_entry_levels \/ plan_dynamic_avg
SpecRefresh == InitRefresh /\ [][NextRefresh]_vars

InitAnalysis == AdjIdle /\ PlanIdle /\ SessIdle /\ AnalysisInit
NextAnalysis == Tick \/ AnalyzeOrders \/ DuplicateSymbols \/ TotalBuyAmount
SpecAnalysis == InitAnalysis /\ [][NextAnalysis]_vars

InitReconcile == AdjIdle /\ PlanIdle /\ SessIdle /\ ReconcileInit
NextReconcile == Tick \/ PlaceOrders \/ AdjustOrders \/ DeleteOrders
SpecReconcile == InitReconcile /\ [][NextReconcile]_vars

InitLevel == AdjIdle /\ PlanIdle /\ SessIdle /\ LevelInit
NextLevel == DetermineEntryLevel \/ CalculateQuantity
SpecLevel == InitLevel /\ [][NextLevel]_vars

InitQuotes == AdjIdle /\ PlanIdle /\ SessIdle /\ QuotesInit
NextQuotes == BeginFetch \/ FetchBatch \/ EndFetch
SpecQuotes == InitQuotes /\ [][NextQuotes]_vars

InitSlot == AdjIdle /\ PlanIdle /\ SessIdle /\ MgrIdle
NextSlot == SlotWrite \/ SlotRead \/ SlotDelete
SpecSlot == InitSlot /\ [][NextSlot]_vars

----------------------------------------------------------------------------
(* Properties *)

MLPlanned == planner = "ml" /\ phase = "planned"
DAPlanned == planner = "da" /\ phase = "planned"

\* how many records of seq are about symbol s
Count(seq, s) == Cardinality({i \in DOMAIN seq : seq[i].symbol = s})

\* the broker holds an active BUY conditional order on the symbol
ActiveBuyGtt(s) ==
    \E g \in Range(broker_gtts) :
        g.status = "active" /\ g.transaction_type = "BUY" /\ Upper(g.tradingsymbol) = s

\* the broker holds a BUY fill of the symbol dated today
BoughtToday(s) ==
    \E t \in Range(broker_trades) :
        t.fill_today /\ t.transaction_type = "BUY" /\ Upper(t.tradingsymbol) = s

\* C1: in a multi-level plan, what is already invested in the symbol plus
\* qty * order price of the planned entry never exceeds the row's Allocated.
C1_WithinAllocation ==
    MLPlanned =>
        \A i \in DOMAIN plan :
            InvestedAmount(holdings, plan[i].symbol) + plan[i].qty * plan[i].price
                <= EntryOf(entry_levels, plan[i].symbol)[1].Allocated

\* C2: the trigger the adjuster returns is at least 0.25% of the reference
\* price away from it.
C2_TriggerGap ==
    adjOut.fn # "none" => ~TooClose(adjOut.trigger, adjIn.ltp)

\* C3: both prices the adjuster returns are exact multiples of the tick size
\* (0.05 below a reference price of 500, 0.10 from 500 on).
C3_OnTick ==
    adjOut.fn = "base" =>
        /\ adjOut.order_price % TickSize(adjIn.ltp) = 0
        /\ adjOut.trigger % TickSize(adjIn.ltp) = 0

\* C4: after a multi-level planning pass every entry-level row with a symbol
\* is accounted for exactly once: as a plan entry or as a skipped order
\* carrying a non-empty reason, never both and never neither.
C4_EveryRowAccounted ==
    MLPlanned =>
        /\ \A s \in Symbols :
              Count(plan, s) + Count(skipped_orders, s)
                  = Count(FilterSeq(HasSymbol, entry_levels), s)
        /\ \A i \in DOMAIN skipped_orders :
              IsSkip(skipped_orders[i]) /\ skipped_orders[i].skip_reason # ""
        /\ \A i \in DOMAIN plan : ~IsSkip(plan[i])

C4_Witness ==
    /\ MLPlanned
    /\ Len(entry_levels) = 2
    /\ Len(plan) = 1
    /\ Len(skipped_orders) = 1
    /\ plan[1].symbol # skipped_orders[1].symbol

\* C5 as stated: a plan returned by a planner has at most one entry per symbol.
C5_OnePerSymbol ==
    phase = "planned" =>
        \A i \in DOMAIN plan, j \in DOMAIN plan :
            plan[i].symbol = plan[j].symbol => i = j

\* the leg number of a dynamic-averaging plan entry
LegIndex(rec) == CHOOSE i \in 1..4 : LegTag(i) = rec.leg

\* C5, amended: a multi-level plan has at most one entry per entry-level row
\* (a symbol listed in k rows has at most k entries); a dynamic-averaging plan
\* has, for each holding of a symbol, at most one entry per leg DA1..DAn, n
\* being the "DA Legs" of the symbol's row.
C5_EntriesPerSymbol ==
    /\ MLPlanned => \A s \in Symbols : Count(plan, s) <= Count(entry_levels, s)
    /\ DAPlanned =>
          \A i \in DOMAIN plan :
              LET s == plan[i].symbol
                  sameLeg == {j \in DOMAIN plan :
                                 plan[j].symbol = s /\ plan[j].leg = plan[i].leg}
                  held == {k \in DOMAIN holdings : DASymbol(holdings[k]) = s}
              IN  /\ LegIndex(plan[i]) <= EntryOf(entry_levels, s)[1].da_legs
                  /\ Cardinality(sameLeg) <= Cardinality(held)

C5_Witness ==
    /\ DAPlanned
    /\ Len(plan) = 2
    /\ plan[1].symbol = plan[2].symbol
    /\ plan[1].leg = "DA1"
    /\ plan[2].leg = "DA2"

\* C6: the dynamic-averaging planner plans no leg for a symbol of which the
\* broker reports a BUY fill dated today.
C6_NoLegAfterBuyFill ==
    DAPlanned => \A i \in DOMAIN plan : ~BoughtToday(plan[i].symbol)

\* C7: the multi-level planner plans no order for a symbol that has an active
\* BUY conditional order at the broker or a BUY fill dated today.
C7_NoPlanWithGttOrFill ==
    MLPlanned =>
        \A i \in DOMAIN plan :
            ~ActiveBuyGtt(plan[i].symbol) /\ ~BoughtToday(plan[i].symbol)

\* C8: an accessor that returns, called while the session is stale, has run
\* the full refresh (holdings, entry levels, conditional orders, quotes, in
\* this order, and last_refreshed set); called while it is not stale it has
\* refreshed nothing and left the session as it was.
C8_ReadThroughIsAllOrNothing ==
    [][(last_op'.op \in Accessors /\ last_op'.error = "") =>
          IF is_stale(session, now)
          THEN /\ last_op'.log = FullRefreshLog
               /\ session'.holdings = now
               /\ session'.entry_levels = now
               /\ session'.gtt_cache \in {now, EMPTY}
               /\ session'.cmp_cache = [holdings |-> now, gtts |-> now,
                                        entry_levels |-> now]
               /\ session'.cmp_last_updated = now
               /\ session'.last_refreshed = now'
          ELSE /\ last_op'.log = <<>>
               /\ session' = session]_vars

C8_Witness ==
    /\ last_op.op = "get_entry_levels"
    /\ last_op.error = ""
    /\ last_op.stale
    /\ last_op.log = FullRefreshLog
    /\ session.holdings > 0
    /\ session.last_refreshed = now

\* C9: a price read through the session (get_cmp_manager, then get_cmp with
\* the clock standing still) never raises the stale-cache error.
C9_NoStaleError ==
    last_op.op = "get_cmp" => last_op.error # "stale_cache"

\* C10: once a placement command has handed a non-empty plan to place_orders
\* the plan slot is empty, whatever the broker answered to each placement;
\* while the slot is empty no step places an order, and only write_gtt_plan
\* fills the slot again.
C10_PlanConsumedOnce ==
    /\ []((last_op.op \in PlaceOps /\ last_op.error = "")
            => read_gtt_plan(plan_file) = <<>>)
    /\ [][read_gtt_plan(plan_file) = <<>> =>
            /\ placed' = placed
            /\ (read_gtt_plan(plan_file') # <<>> => last_op'.op = "write_gtt_plan")]_vars

C10_Witness ==
    /\ last_op.op \in PlaceOps
    /\ last_op.error = ""
    /\ last_op.calls = 2
    /\ Len(placed) = 1
    /\ read_gtt_plan(plan_file) = <<>>

\* what the slot has to hold after the calls made: the argument of the last
\* write_gtt_plan unless a delete_gtt_plan came after it
LastWritten(calls) ==
    IF calls = <<>> \/ calls[Len(calls)].op = "delete" THEN <<>>
    ELSE calls[Len(calls)].orders

\* C11: after any sequence of write_gtt_plan, read_gtt_plan and
\* delete_gtt_plan calls by one or several writers taking turns, read_gtt_plan
\* returns the argument of the most recent write if no delete followed it and
\* [] otherwise (nothing of an earlier plan is merged in), and a read leaves
\* the slot as it was.
C11_SlotHoldsLastWrite ==
    /\ [](/\ read_gtt_plan(plan_file) = LastWritten(slot_log.calls)
          /\ slot_log.did_read => slot_log.read = LastWritten(slot_log.calls))
    /\ [][slot_log'.calls = slot_log.calls => plan_file' = plan_file]_vars

C11_Witness ==
    /\ Len(slot_log.calls) = 2
    /\ slot_log.calls[1].op = "write" /\ Len(slot_log.calls[1].orders) = 2
    /\ slot_log.calls[2].op = "write" /\ Len(slot_log.calls[2].orders) = 1
    /\ slot_log.calls[2].by # slot_log.calls[1].by
    /\ slot_log.did_read
    /\ slot_log.read = slot_log.calls[2].orders

\* no list of the session stands for a fetch that failed
ListsFetched == session.entry_levels # EMPTY /\ session.gtt_cache # EMPTY

\* C12: when fetching holdings, entry levels or conditional orders fails
\* during refresh_all_caches the refresh raises and the command ends: a
\* planning command that went on to persist its plan has no list of the
\* session replaced by [] for a fetch that failed.
C12_FailedFetchPropagates ==
    (last_op.op \in PlanOps /\ last_op.error = "") => ListsFetched

\* the quote the quote cache serves for a cached order: none when the cache
\* has none for the symbol, and none when the cache is past its TTL
ServedQuote(g) == IF mgr_out.valid THEN mgr_in.cmp_cache[g.tradingsymbol] ELSE NaN

\* v is (ltp - trigger) / trigger * 100 to the nearest hundredth
IsVarianceOf(v, ltp, trigger) ==
    LET exact == (ltp - trigger) * 10000
    IN  2 * Abs(v * trigger - exact) <= trigger

\* the cached order is active, a BUY, has a trigger and a quote
IsAnalysed(g) ==
    /\ g.status = "active" /\ g.transaction_type = "BUY"
    /\ g.trigger # NaN /\ ServedQuote(g) # NaN

DuplicatedSymbols(gtts) ==
    {sym \in Symbols :
        Cardinality({i \in 1..Len(gtts) :
                        /\ gtts[i].tradingsymbol = sym
                        /\ gtts[i].status = "active"
                        /\ gtts[i].transaction_type = "BUY"}) > 1}

\* C17: get_duplicate_gtt_symbols returns exactly the symbols that have more
\* than one active BUY order in the cache, each once; orders that are not
\* active or not BUY never make a symbol a duplicate.
C17_DuplicateSymbols ==
    mgr_out.op = "get_duplicate_gtt_symbols" =>
        /\ Range(mgr_out.result) = DuplicatedSymbols(mgr_in.gtt_cache)
        /\ Len(mgr_out.result) = Cardinality(Range(mgr_out.result))

C17_Witness ==
    /\ mgr_out.op = "get_duplicate_gtt_symbols"
    /\ mgr_out.result = <<"FOO">>
    /\ Len(mgr_in.gtt_cache) = 3
    /\ \A i \in 1..3 : mgr_in.gtt_cache[i].tradingsymbol = "FOO"
    /\ \E i \in 1..3 : mgr_in.gtt_cache[i].transaction_type = "SELL"

\* (ltp - trigger) / trigger * 100, to the nearest hundredth (the even one
\* at a tie), is not above the threshold
VarianceWithin(ltp, trigger, threshold) ==
    LET exact == 2 * (ltp - trigger) * 10000
        limit == (2 * threshold + 1) * trigger
    IN  exact < limit \/ (exact = limit /\ threshold % 2 = 0)

\* the cached order counts towards the total asked for with the threshold
IsSummed(g, threshold) ==
    /\ g.status = "active" /\ g.transaction_type = "BUY"
    /\ threshold # NaN =>
          /\ g.trigger # NaN /\ ServedQuote(g) # NaN
          /\ VarianceWithin(ServedQuote(g), g.trigger, threshold)

RECURSIVE SumOver(_, _)
SumOver(gtts, ids) ==
    IF ids = {} THEN 0
    ELSE LET i == CHOOSE k \in ids : TRUE
         IN  gtts[i].price * gtts[i].quantity + SumOver(gtts, ids \ {i})

CallsFor(call, ref) ==
    {k \in 1..Len(mgr_out.calls) :
        mgr_out.calls[k].call = call /\ mgr_out.calls[k].ref = ref}

\* C13: place_orders returns exactly one result row per plan entry, in plan
\* order; a skip-tagged entry gives a "Skipped" row and no broker call; any
\* other entry gives exactly one place_gtt call (none under dry_run) and a
\* "Success" row, or a "Fail" row with the error text when the call raised;
\* a failing placement does not keep the later entries from being tried.
C13_OneRowPerEntry ==
    mgr_out.op = "place_orders" =>
        LET gtt_plan == mgr_in.orders
            rows == mgr_out.results
        IN  /\ Len(rows) = Len(gtt_plan)
            /\ \A i \in 1..Len(gtt_plan) :
                  /\ rows[i].symbol = gtt_plan[i].symbol
                  /\ IF gtt_plan[i].skip_reason # ""
                     THEN /\ rows[i].status = "Skipped"
                          /\ rows[i].remarks = gtt_plan[i].skip_reason
                          /\ CallsFor("place_gtt", i) = {}
                     ELSE /\ Cardinality(CallsFor("place_gtt", i))
                               = IF mgr_in.dry_run THEN 0 ELSE 1
                          /\ rows[i].status
                               = IF ~mgr_in.dry_run /\ mgr_out.answers[i] # "ok"
                                 THEN "Fail" ELSE "Success"
                          /\ rows[i].status = "Fail" => rows[i].remarks # ""

C13_Witness ==
    /\ mgr_out.op = "place_orders"
    /\ ~mgr_in.dry_run
    /\ Len(mgr_in.orders) = 3
    /\ mgr_out.results[1].status = "Fail"
    /\ mgr_out.results[2].status = "Skipped"
    /\ mgr_out.results[3].status = "Success"
    /\ Len(mgr_out.calls) = 3

\* the trigger is within one tick of ltp / (1 + target_variance / 100)
RealisesTarget(trigger, ltp, target_variance) ==
    Abs(trigger * (10000 + target_variance) - ltp * 10000)
        <= TickSize(ltp) * (10000 + target_variance)

\* C14: for every order handed to adjust_orders with a variance below
\* target_variance (the broker accepting the calls), the order is cancelled
\* and a replacement BUY for the same symbol and quantity is placed whose
\* trigger realises target_variance against the current price up to tick
\* rounding, whatever the target.
C14_ReplacementRealisesTarget ==
    mgr_out.op = "adjust_orders" =>
        \A i \in 1..Len(mgr_in.orders) :
            LET order == mgr_in.orders[i]
            IN  (order.variance < mgr_in.target /\ mgr_out.answers[i] = "ok") =>
                    /\ CallsFor("cancel_gtt", order.id) # {}
                    /\ \E k \in CallsFor("place_gtt", order.id) :
                          /\ mgr_out.calls[k].symbol = order.symbol
                          /\ mgr_out.calls[k].quantity = order.qty
                          /\ RealisesTarget(mgr_out.calls[k].trigger, order.ltp,
                                            mgr_in.target)

ReconcileBrokerCalls ==
    {k \in 1..Len(mgr_out.calls) : mgr_out.calls[k].call # "refresh_gtt_cache"}

\* C15: every call of place_orders, adjust_orders and
\* delete_orders_above_variance refreshes the conditional-order cache exactly
\* once, after its last broker call and never between two orders, whether the
\* broker calls returned or raised.
C15_RefreshOnceAtEnd ==
    mgr_out.op \in ReconcileOps =>
        /\ Len(mgr_out.calls) > 0
        /\ mgr_out.calls[Len(mgr_out.calls)].call = "refresh_gtt_cache"
        /\ ReconcileBrokerCalls = 1..(Len(mgr_out.calls) - 1)

C15_Witness ==
    /\ mgr_out.op = "delete_orders_above_variance"
    /\ Len(mgr_out.calls) = 3
    /\ Len(mgr_out.results) = 1
    /\ mgr_out.answers[1] = "cancel_raises"
    /\ mgr_out.calls[3].call = "refresh_gtt_cache"

\* the events of the download that are of kind ev and belong to batch b
EventsOf(ev, b) ==
    {k \in 1..Len(fetch.log) : fetch.log[k].ev = ev /\ fetch.log[k].batch = b}

\* what the first request of batch b was answered
FirstAnswer(b) ==
    fetch.log[CHOOSE k \in EventsOf("fetch", b) : \A j \in EventsOf("fetch", b) : k <= j].answer

\* batch b has been through the loop
Fetched(b) == fetch.pc \in {"loop", "done"} /\ b <= fetch.i

\* the batches are requested one after the other, each of at most 50 keys;
\* the batches that ended with a 200 have their quotes stored, the others
\* have none, and when the download returns every batch has been requested
BatchesSequential ==
    fetch.pc \in {"loop", "done"} =>
        /\ \A j, k \in 1..Len(fetch.log) : j < k => fetch.log[j].batch <= fetch.log[k].batch
        /\ \A b \in 1..NumBatches(fetch.n) :
              /\ Cardinality(BatchKeys(fetch.n, b)) <= 50
              /\ Fetched(b) => EventsOf("fetch", b) # {}
              /\ ~Fetched(b) => EventsOf("fetch", b) = {}
        /\ fetch.quote_map =
              UNION {BatchKeys(fetch.n, b) : b \in {c \in 1..fetch.i :
                        \E k \in EventsOf("fetch", c) : fetch.log[k].answer = "200"}}
        /\ fetch.pc = "done" => fetch.i = NumBatches(fetch.n)

\* C19 as stated: every batch answered with an authorization failure (a 401)
\* gets exactly one token refresh and exactly one retry; the batches are
\* sequential, of at most 50 keys, and a batch that fails costs only its own
\* quotes.
C19_OneRefreshOneRetry ==
    /\ BatchesSequential
    /\ \A b \in 1..NumBatches(fetch.n) :
          (Fetched(b) /\ FirstAnswer(b) \in {"401_UDAPI100050", "401_other"}) =>
              /\ Cardinality(EventsOf("token", b)) = 1
              /\ Cardinality(EventsOf("fetch", b)) = 2

\* C19, amended: a batch answered 401 with errorCode UDAPI100050 gets exactly
\* one token refresh and, when that returned a token, exactly one retry; a
\* batch answered anything else, another 401 included, gets neither; the
\* batches are sequential, of at most 50 keys, and a batch that fails costs
\* only its own quotes, every later batch being requested and stored.
C19_InvalidTokenRetriedOnce ==
    /\ BatchesSequential
    /\ \A b \in 1..NumBatches(fetch.n) :
          Fetched(b) =>
              LET tokens == EventsOf("token", b)
                  fetches == EventsOf("fetch", b)
              IN  IF FirstAnswer(b) = "401_UDAPI100050"
                  THEN /\ Cardinality(tokens) = 1
                       /\ Cardinality(fetches) =
                             IF \E k \in tokens : fetch.log[k].answer = "ok"
                             THEN 2 ELSE 1
                  ELSE tokens = {} /\ Cardinality(fetches) = 1

C19_Witness ==
    /\ fetch.pc = "done"
    /\ fetch.n = 2 * batch_size + 1
    /\ Len(fetch.log) = 5
    /\ fetch.log[2].answer = "401_UDAPI100050"
    /\ fetch.log[3].ev = "token"
    /\ fetch.log[4].answer = "401"
    /\ fetch.log[5].answer = "200" /\ fetch.log[5].batch = 3 /\ fetch.log[5].token = 1
    /\ fetch.quote_map = BatchKeys(fetch.n, 1) \cup BatchKeys(fetch.n, 3)

\* the refresh steps completed are the first ones of holdings, entry
\* levels, conditional orders, quotes
InRefreshOrder(log) ==
    Len(log) <= Len(FullRefreshLog) /\ log = SubSeq(FullRefreshLog, 1, Len(log))

\* the lists the quote cache has collected its symbols from are the ones
\* fetched at time t: the holdings and the conditional orders answered at t,
\* and the entry levels the session read at t ([] when the read failed)
UniverseOfRun(s, t) ==
    /\ s.holdings = t
    /\ s.entry_levels \in {t, EMPTY}
    /\ s.cmp_cache = [holdings |-> t, gtts |-> t, entry_levels |-> s.entry_levels]
    /\ s.cmp_last_updated = t

\* C20: refresh_all_caches goes through holdings, entry levels, conditional
\* orders, quotes in that order, and a run that reaches the quote refresh
\* collects the symbols from the three lists obtained in that run, never from
\* the lists of an earlier run.
C20_RefreshOrderAndUniverse ==
    [][last_op'.op \in PlanOps =>
          /\ InRefreshOrder(last_op'.log)
          /\ last_op'.log = FullRefreshLog => UniverseOfRun(session', now)]_vars

\* a run started at a later tick than the lists of construction and lasting
\* one tick: the quote cache holds the lists fetched at the start of the run
C20_Witness ==
    /\ last_op.op \in PlanOps
    /\ last_op.log = FullRefreshLog
    /\ now >= 2
    /\ session.last_refreshed = now
    /\ session.cmp_cache = [holdings |-> now - 1, gtts |-> now - 1, entry_levels |-> now - 1]

\* C30: the adjuster keeps trigger and order price on the side its branch
\* chose: for an order price below the reference price the trigger is below
\* the reference price and the order price not above the trigger; for an
\* order price at or above it the trigger is above the reference price and the
\* order price not below the trigger, the final guard included.
C30_BranchSide ==
    adjOut.fn = "base" =>
        IF adjIn.order_price < adjIn.ltp
        THEN adjOut.trigger < adjIn.ltp /\ adjOut.order_price <= adjOut.trigger
        ELSE adjOut.trigger > adjIn.ltp /\ adjOut.order_price >= adjOut.trigger

\* the orders the broker holds for the input order at place i once
\* adjust_orders has returned: the original unless its cancellation was
\* carried out, and every replacement whose placement was accepted
StandingFor(i) ==
    LET order == mgr_in.orders[i]
        cancelled == CallsFor("cancel_gtt", order.id) # {}
                     /\ mgr_out.answers[i] # "cancel_raises"
        accepted  == IF mgr_out.answers[i] = "ok"
                     THEN Cardinality(CallsFor("place_gtt", order.id)) ELSE 0
    IN  (IF cancelled THEN 0 ELSE 1) + accepted

\* C26: adjust_orders never loses a standing order: for every input order the
\* broker holds afterwards either the original or exactly one replacement,
\* also when the placement raises after the cancellation went through; and
\* when the cancellation raises no replacement is placed.
C26_NoOrderLost ==
    mgr_out.op = "adjust_orders" =>
        \A i \in 1..Len(mgr_in.orders) :
            /\ StandingFor(i) = 1
            /\ mgr_out.answers[i] = "cancel_raises" =>
                   CallsFor("place_gtt", mgr_in.orders[i].id) = {}

\* C27: refresh_gtt_cache called on its own, as place_orders, adjust_orders
\* and delete_orders_above_variance do on return, changes only the
\* conditional-order cache: holdings, entry levels, the quote cache and
\* last_refreshed keep their values, and a session that was stale (fresh)
\* before the call is stale (fresh) after it.
C27_RefreshGttCacheFrame ==
    [][(mgr_out.op = "none" /\ mgr_out'.op \in ReconcileOps) =>
          /\ session' = [session EXCEPT !.gtt_cache = session'.gtt_cache]
          /\ session'.gtt_cache \in {now, EMPTY}
          /\ is_stale(session', now') = is_stale(session, now)]_vars

\* a stale session after adjust_orders returned: the conditional orders are
\* those of now, everything else is as construction left it
C27_Witness ==
    /\ mgr_out.op = "adjust_orders"
    /\ is_stale(session, now)
    /\ session.gtt_cache = now
    /\ session.last_refreshed = 0
    /\ session.holdings = 0
    /\ session.cmp_last_updated = 0

\* the refresh steps logged hold a run of all four
CompletedRun(log) ==
    \E k \in 0..(Len(log) - Len(FullRefreshLog)) :
        SubSeq(log, k + 1, k + Len(FullRefreshLog)) = FullRefreshLog

\* C28: last_refreshed changes only in a step that completed a run of
\* refresh_all_caches through all four refreshes; a run that raised leaves
\* last_refreshed as it was, so a session that was stale is stale afterwards,
\* and the next accessor call on it starts a full refresh again.
C28_StampOnlyOnCompletion ==
    [][/\ session'.last_refreshed # session.last_refreshed =>
              CompletedRun(last_op'.log) /\ session'.last_refreshed = now'
       /\ (last_op'.error = "refresh_failed" /\ last_op' # last_op) =>
              /\ session'.last_refreshed = session.last_refreshed
              /\ is_stale(session, now) => is_stale(session', now')
       /\ (last_op'.op \in Accessors /\ last_op' # last_op /\ is_stale(session, now)) =>
              \/ last_op'.error = "refresh_failed"
              \/ last_op'.log = FullRefreshLog /\ session'.last_refreshed = now'
      ]_vars

\* an accessor called on a stale session whose refresh raised in its last
\* step: the lists are new, the session is still stale
C28_Witness ==
    /\ last_op.op \in Accessors
    /\ last_op.error = "refresh_failed"
    /\ last_op.log = SubSeq(FullRefreshLog, 1, 3)
    /\ session.holdings = now
    /\ session.last_refreshed < now
    /\ is_stale(session, now)

\* the level selection has returned
LevelSelected == mgr_out.op \in {"_determine_entry_level", "_calculate_quantity"}

\* the valid levels of the candidate whose ceiling the invested amount has
\* not reached, and those of them priced at or above the current price
OpenLevels ==
    {i \in 1..3 : /\ EntryLevelDefinitions(mgr_in.scrip)[i].price # NaN
                  /\ mgr_in.invested_amount < LevelMaxInvestment(mgr_in.scrip, i)}

ReadyLevels ==
    {i \in OpenLevels : EntryLevelDefinitions(mgr_in.scrip)[i].price >= mgr_in.ltp}

\* what was returned is level i with its price and its ceiling
ReturnedLevel(i) ==
    /\ mgr_out.level = LevelTag(i)
    /\ mgr_out.price = EntryLevelDefinitions(mgr_in.scrip)[i].price
    /\ mgr_out.max_investment = LevelMaxInvestment(mgr_in.scrip, i)

\* C22: _determine_entry_level returns, when a valid level is priced at or
\* above the current price with its ceiling unreached, the one of those with
\* the lowest entry price; otherwise the first valid level (E1, E2, E3) whose
\* ceiling is above the invested amount; otherwise no level. For allocated
\* 30000, entries 100 / 90 / 80, current price 95 and nothing invested it
\* returns E1 with ceiling 10000, and the quantity is floor(10000 / 100) = 100.
C22_LevelSelection ==
    LevelSelected =>
        /\ IF ReadyLevels # {}
           THEN \E i \in ReadyLevels :
                   /\ ReturnedLevel(i)
                   /\ \A j \in ReadyLevels : mgr_out.price <= EntryLevelDefinitions(mgr_in.scrip)[j].price
           ELSE IF OpenLevels # {}
           THEN \E i \in OpenLevels :
                   ReturnedLevel(i) /\ \A j \in OpenLevels : i <= j
           ELSE mgr_out.level = "" /\ mgr_out.max_investment = 0
        /\ (/\ mgr_in.scrip.entry1 = 10000 /\ mgr_in.scrip.entry2 = 9000
            /\ mgr_in.scrip.entry3 = 8000 /\ mgr_in.ltp = 9500
            /\ mgr_in.invested_amount = 0) =>
               /\ mgr_out.level = "E1" /\ mgr_out.max_investment = 1000000
               /\ mgr_out.op = "_calculate_quantity" => mgr_out.qty = 100

\* the cheapest of three levels ready at once, the quantity computed
C22_Witness ==
    /\ mgr_out.op = "_calculate_quantity"
    /\ mgr_in.ltp = 7900
    /\ mgr_in.invested_amount = 0
    /\ mgr_in.scrip.num_entries = 3
    /\ mgr_out.level = "E3"
    /\ mgr_out.qty = 375

\* the last valid level of the candidate
LastValidLevel ==
    CHOOSE i \in 1..3 :
        /\ EntryLevelDefinitions(mgr_in.scrip)[i].price # NaN
        /\ \A j \in 1..3 : EntryLevelDefinitions(mgr_in.scrip)[j].price # NaN => j <= i

\* C29: the ceiling returned for the selected level never exceeds the
\* allocated capital, whichever of the entry prices are valid, and the
\* ceiling of the last valid level is the allocated capital.
C29_CeilingWithinAllocation ==
    (LevelSelected /\ mgr_out.level # "") =>
        /\ mgr_out.max_investment <= mgr_in.scrip.Allocated
        /\ mgr_out.level = LevelTag(LastValidLevel) =>
               mgr_out.max_investment = mgr_in.scrip.Allocated

\* the place of a skip reason in the order existing order (1), allocation
\* validity (2), entry-price validity (3), live price (4), capital ceilings
\* (5), variance / threshold (6)
ReasonRank(reason) ==
    CASE reason \in {"GTT already exists for symbol", "GTT already exists",
                     "Trade already completed today", "Not in entry levels"} -> 1
      [] reason \in {"Invalid or zero allocation",
                     "DA not enabled or allocated < LTP"} -> 2
      [] reason = "No valid entry levels" -> 3
      [] reason \in {"Invalid CMP", "Invalid LTP"} -> 4
      [] reason \in {"LTP-trigger variance exceeds threshold",
                     "LTP not below threshold"} -> 6
      [] OTHER -> 5

ExistingOrderReasons == {"GTT already exists for symbol", "GTT already exists"}

\* precondition j of the order fails for symbol s, as far as the planner can
\* know: the conditional orders were obtained and hold an active BUY order
\* of s; the row of s has no allocation; no entry price; no quote
FailsPrecondition(j, s) ==
    LET row == EntryOf(entry_levels, s)[1]
    IN  CASE j = 1 -> last_op.error = "" /\ ActiveBuyGtt(s)
          [] j = 2 -> row.Allocated = NaN \/ row.Allocated = 0
          [] j = 3 -> NumEntries(row) = 0
          [] j = 4 -> quotes[s] = NaN
          [] OTHER -> FALSE

\* the symbols the planner in use has looked at and that have a row
ConsideredSymbols ==
    {x \in CASE planner = "ml" -> {Upper(r.symbol) : r \in Range(entry_levels)}
             [] planner = "da" -> {DASymbol(h) : h \in Range(holdings)}
             [] planner = "sl" -> {Upper(r.symbol) : r \in Range(candidates)}
             [] OTHER -> {} :
        EntryOf(entry_levels, x) # <<>>}

\* C21: in each of the three planners a symbol is reported with the reason of
\* the first failing precondition in the order existing order, allocation,
\* entry prices, live price, capital ceilings, variance / threshold: no skip
\* record names a later precondition while an earlier one fails, and a
\* symbol with an existing BUY conditional order and no usable quote is
\* reported as skipped for the existing order.
C21_FirstFailingReason ==
    (planner # "none" /\ phase \in {"identified", "planned"}) =>
        /\ \A i \in DOMAIN skipped_orders :
              LET rec == skipped_orders[i]
                  s   == Upper(rec.symbol)
              IN  s \in ConsideredSymbols =>
                      \A j \in 1..(ReasonRank(rec.skip_reason) - 1) :
                          ~FailsPrecondition(j, s)
        /\ \A s \in ConsideredSymbols :
              (FailsPrecondition(1, s) /\ FailsPrecondition(4, s)) =>
                  /\ \E i \in DOMAIN skipped_orders :
                        Upper(skipped_orders[i].symbol) = s
                  /\ \A i \in DOMAIN skipped_orders :
                        Upper(skipped_orders[i].symbol) = s =>
                            skipped_orders[i].skip_reason \in ExistingOrderReasons

\* what is already invested in the holding the candidate was made of
DAInvested(c) == c.held_qty * c.avg_price

\* the entries of the plan that are legs of candidate c
LegsOf(c) == {i \in DOMAIN plan : plan[i].symbol = c.symbol}

\* a candidate is on record: it has legs in the plan or a skip record with a
\* reason
OnRecord(symbol) ==
    \/ \E i \in DOMAIN plan : plan[i].symbol = symbol
    \/ \E i \in DOMAIN skipped_orders :
          skipped_orders[i].symbol = symbol /\ skipped_orders[i].skip_reason # ""

\* the unfilled remainder of the candidate's level, at the current price, is
\* more than 75% of one leg's allocation (allocated / number of valid levels)
RemainderTooLarge(c) ==
    LET n == Len(EntryPrices(EntryOf(entry_levels, c.symbol)[1]))
    IN  (c.target_qty - c.held_qty) * c.ltp * n * 100 > 75 * c.allocated

\* C23: the dynamic-averaging planner rejects a candidate, with a skip reason
\* on record and no leg planned, whenever the unfilled remainder of its level
\* exceeds 75% of a single leg's allocation.
C23_LargeRemainderRejected ==
    DAPlanned =>
        \A k \in DOMAIN candidates :
            RemainderTooLarge(candidates[k]) =>
                /\ LegsOf(candidates[k]) = {}
                /\ \E i \in DOMAIN skipped_orders :
                      skipped_orders[i].symbol = candidates[k].symbol

\* C24: for every symbol of a dynamic-averaging plan, what is invested plus
\* the sum over its legs of qty * order price (the adjusted price written in
\* the plan) does not exceed the allocated capital.
C24_LegsWithinAllocation ==
    DAPlanned =>
        \A k \in DOMAIN candidates :
            LET c == candidates[k]
                legs == LegsOf(c)
                cost == IF legs = {} THEN 0
                        ELSE Cardinality(legs)
                             * plan[CHOOSE i \in legs : TRUE].qty
                             * plan[CHOOSE i \in legs : TRUE].price
            IN  (\A m \in DOMAIN candidates : candidates[m].symbol = c.symbol => m = k)
                    => DAInvested(c) + cost <= c.allocated

\* C25: every holding the dynamic-averaging planner considered is, after
\* generate_buy_plan, in the plan or in skipped_symbols with a reason, also
\* when its remaining quantity or its quantity per leg comes to 0.
C25_EveryHoldingOnRecord ==
    DAPlanned =>
        \A h \in Range(holdings) : OnRecord(DASymbol(h))

====
